---- MODULE Spec2Model ----
(***************************************************************************)
(* integration-test-commons: the TestCluster controller                    *)
(* (src/operator/setup.rs), the scoped TemporaryResource                   *)
(* (src/test/temporary_resource.rs) and the blocking KubeClient operations *)
(* (src/test/kube.rs), as state machines.                                  *)
(*                                                                         *)
(* Time is counted in ticks of 1/TicksPerSec second, so that               *)
(* Duration::as_secs (a truncation to whole seconds) is a real conversion. *)
(***************************************************************************)
EXTENDS Integers, Sequences, FiniteSets, TLC

\* ---------------------------------------------------------------- bounds
\* Pods that can carry the labels of the cluster under test.
MaxPods == 2
\* Resolution of the clock: ticks per second.
TicksPerSec == 2
\* The long cluster_ready timeout a test configures, in seconds.
MaxReadySecs == 5
\* The long pods_terminated timeout a test configures, in seconds.
MaxTermSecs == 2
\* How many ticks a sleep (or the calls around it) may overrun.
MaxJitter == 1
\* Events a watch stream buffers before the reader takes them.
MaxStream == 2
\* Events of one KubeClient watch that other clients of the server cause.
MaxKEvents == 2
\* Objects of the test's name the server creates for other clients.
MaxUid == 2
\* Status updates a controller writes to the test's resource.
MaxStatus == 1
\* The threads that share one TestKubeClient, and the operations they issue.
\* Creation timestamps a pod or a cutoff can carry, in seconds.
MaxTime == 2
\* Values the version label of a pod can carry.
MaxVersion == 2
MaxCallers == 2
MaxOps == 4
\* The calls of setup_repository and setup_repository_async in one process.
MaxSetupCalls == 4
\* The longest instance_name handed to TestClusterOptions::new, in bytes.
MaxNameLen == 66

\* ------------------------------------------------------ program constants
\* thread::sleep(Duration::from_secs(2)) between two polls of wait_ready.
ReadySleepSecs == 2
\* thread::sleep(Duration::from_secs(1)) between two polls of
\* wait_for_pods_terminated.
TermSleepSecs == 1

\* Timeouts::default(): create, delete and apply_crd, in seconds.
CreateTimeoutSecs == 10
DeleteTimeoutSecs == 10
ApplyCrdTimeoutSecs == 30

\* ------------------------------------------------------------ value sets
PodIds == 1..MaxPods
Phases == {"Absent", "Pending", "Ready", "Terminating"}
\* The cluster resources a test applies.
Clusters == {"c1", "c2"}
Callers == 1..MaxCallers
\* TestClusterTimeouts a test may configure: a sub-second duration and a
\* long one for each field, in ticks.
ReadyTimeouts == {0, 1, MaxReadySecs * TicksPerSec}
TermTimeouts == {0, 1, MaxTermSecs * TicksPerSec}

VARIABLES
    cluster,        \* TestCluster.cluster: "None" or the applied resource
    timeouts,       \* TestCluster.timeouts, each Duration in ticks
    pc,             \* where the test thread stands
    op,             \* the public operation in progress, or the last one
    arg,            \* the cluster resource handed to create_or_update
    expected,       \* expected_pod_count of wait_ready
    elapsed,        \* now.elapsed() of the wait in progress, in ticks
    created_pods,   \* the pods the last list::<Pod>(None) returned
    todo,           \* pods of created_pods not yet verified
    watched,        \* the pod verify_status is watching (0: none)
    stream,         \* the events buffered in verify_status' watch stream
    accepted,       \* pod -> the status the predicate accepted for it
    result,         \* what the last operation returned to the test
    kerr,           \* the Err a KubeClient call returned last (unwrapped by expect)
    panicking,      \* the test thread is unwinding from a panic
    taken,          \* the local `cluster` of drop (self.cluster.take())
    deleteCalls,    \* client.delete calls issued by drop
    listCalls,      \* list calls issued by the wait in progress
    mismatches,     \* polls of wait_ready whose count differed
    polled,         \* the pods that existed on the server at the last poll
    pods,           \* the server: pod -> phase
    \* A test that holds a TemporaryResource over a KubeClient:
    tpc,            \* where that test thread stands
    tr_resource,    \* TemporaryResource.resource
    tr_deleted,     \* the resources handed to client.delete, in order
    t_panicking,    \* that test thread is unwinding from a panic
    k_last,         \* the KubeClient operation in progress, or the last one
    k_arg,          \* the resource handed to KubeClient::delete
    k_watch,        \* the name the open watch subscription selects ("": none)
    k_inflight,     \* the events of that watch the server has not sent yet
    k_stream,       \* the events buffered in that watch stream
    k_consumed,     \* the events the operation has read from the stream
    k_mutation,     \* the events the operation's own API call produced
    k_result,       \* the Result the last KubeClient operation returned
    srv,            \* the server: the resource of the test's name
    crd,            \* the server: the custom resource definition
    nextUid,        \* the uid the server gives the next created object
    \* A caller of KubeClient::verify_status on the resource of that name:
    vs_timeout,     \* Timeouts.verify_status, a Duration in ticks
    vs_pred,        \* the predicate handed to verify_status
    vs_clock,       \* ticks since the watch of verify_status was opened
    vs_read,        \* the resource api.get_status returned
    vs_events,      \* the events the server produced for the name since then
    vs_sat,         \* a change made the resource fulfil the predicate during the call
    \* Threads that share a reference to one TestKubeClient:
    cc_pc,          \* caller -> "idle", "blocked" (inside block_on), "panicked"
    cc_running,     \* the operations whose future the runtime is driving
    cc_issued,      \* the operations in the order they were issued
    cc_done,        \* the operations in the order they completed
    cc_next,        \* the number of the next operation
    \* Tests of one process that set up the repository:
    REPO_CREATED,   \* the static OnceCell<bool>: "unset" or "true"
    rp_pc,          \* caller -> where it stands in setup_repository(_async)
    rp_variant,     \* caller -> "sync" or "async", the function it called last
    rp_result,      \* caller -> what its last call returned
    rp_calls,       \* calls of setup_repository and setup_repository_async
    rp_crd_runs,    \* executions of apply_crd(&Repository::crd())
    rp_apply_runs,  \* executions of apply::<Repository>(REPO_SPEC)
    \* A call of TestClusterOptions::new:
    nm_in,          \* the instance_name argument, a sequence of bytes
    nm_uid,         \* the first field of the generated Uuid, a u32
    nm_out,         \* TestClusterOptions.instance_name, or the panic of new
    \* A call of check_pod_creation_timestamp:
    ck_pods,        \* metadata.creation_timestamp of the pods list returned
    ck_cutoff,      \* the creation_timestamp argument, an Option<Time>
    ck_result,      \* what the call returned, or its panic
    \* A call of check_pod_version:
    ck_labels,      \* the version label of the pods list returned (0: none)
    ck_version,     \* the version argument
    ck_vresult,     \* what the call returned, or its panic
    \* A call of TestCluster::list:
    ls_additional,  \* the additional_labels argument, an Option<BTreeMap>
    ls_selector,    \* the label selector handed to list_labeled
    ls_result,      \* the items returned, or the panic of list_labeled
    \* A test that applies a specification under a unique name:
    un_pc,          \* "start", "named", "applied", "found", "panicked"
    un_yaml,        \* the YAML text handed to with_unique_name
    un_uuid,        \* the Uuid::new_v4() drawn by with_unique_name
    un_out,         \* the YAML text with_unique_name returned
    un_stored,      \* the resource the server holds after apply
    un_found        \* what find_namespaced returned

tcVars == <<cluster, timeouts, pc, op, arg, expected, elapsed, created_pods,
            todo, watched, stream, accepted, result, kerr, panicking, taken,
            deleteCalls, listCalls, mismatches, polled, pods>>

kcVars == <<tpc, tr_resource, tr_deleted, t_panicking, k_last, k_arg, k_watch,
            k_inflight, k_stream, k_consumed, k_mutation, k_result, srv, crd, nextUid>>

vsVars == <<vs_timeout, vs_pred, vs_clock, vs_read, vs_events, vs_sat>>

\* What neither the TestCluster nor the TemporaryResource test touches.
ccVars == <<cc_pc, cc_running, cc_issued, cc_done, cc_next>>

rpVars == <<REPO_CREATED, rp_pc, rp_variant, rp_result, rp_calls, rp_crd_runs,
            rp_apply_runs>>

nmVars == <<nm_in, nm_uid, nm_out>>

ckVars == <<ck_pods, ck_cutoff, ck_result, ck_labels, ck_version, ck_vresult>>

lsVars == <<ls_additional, ls_selector, ls_result>>

unVars == <<un_pc, un_yaml, un_uuid, un_out, un_stored, un_found>>

auxVars == <<vsVars, ccVars, rpVars, nmVars, ckVars, lsVars, unVars>>

vars == <<tcVars, kcVars, auxVars>>

\* What a caller of verify_status or find leaves alone.
verifyFrame == <<tcVars, ccVars, rpVars, nmVars, ckVars, lsVars, unVars>>

\* What the callers of a shared TestKubeClient leave alone.
clientFrame == <<tcVars, kcVars, vsVars, rpVars, nmVars, ckVars, lsVars, unVars>>

\* What the repository setup leaves alone.
repoFrame == <<tcVars, kcVars, vsVars, ccVars, nmVars, ckVars, lsVars, unVars>>

\* What TestClusterOptions::new leaves alone.
nameFrame == <<tcVars, kcVars, vsVars, ccVars, rpVars, ckVars, lsVars, unVars>>

\* What check_pod_creation_timestamp leaves alone.
checkFrame == <<tcVars, kcVars, vsVars, ccVars, rpVars, nmVars, lsVars, unVars>>

\* What with_unique_name and the apply and find after it leave alone.
uniqueFrame == <<tcVars, kcVars, vsVars, ccVars, rpVars, nmVars, ckVars, lsVars>>

\* What TestCluster::list leaves alone.
listFrame == <<tcVars, kcVars, vsVars, ccVars, rpVars, nmVars, ckVars, unVars>>

\* ------------------------------------------------------------- helpers

\* Duration::as_secs: whole seconds, the sub-second part dropped.
AsSecs(d) == d \div TicksPerSec

\* Duration::from_secs
FromSecs(s) == s * TicksPerSec

\* (mutant) the Durations compared as they are, without as_secs.
WithinDeadline_Exact(e, timeout) == e < timeout

\* (mutant) the deadline compared with <= : one more poll at the deadline.
WithinDeadline_Inclusive(e, timeout) == e \div TicksPerSec <= timeout \div TicksPerSec

\* The loop condition of both waits:
\* now.elapsed().as_secs() < timeout.as_secs()
WithinDeadline(e, timeout) == AsSecs(e) < AsSecs(timeout)

\* (mutant) a list that leaves out the pods that are terminating.
ListPods_SkipsTerminating == {p \in PodIds : pods[p] \in {"Pending", "Ready"}}

\* TestCluster::list::<Pod>(None): every pod carrying the app and instance
\* labels of this cluster, whatever its phase.
ListPods == {p \in PodIds : pods[p] # "Absent"}

\* (mutant) at least the expected number of pods is enough.
CountMatches_AtLeast(listed, n) == Cardinality(listed) >= n

\* created_pods.len() != expected_pod_count, negated
CountMatches(listed, n) == Cardinality(listed) = n

\* (mutant) a predicate that takes a pod that merely exists for ready.
IsConditionTrue_AnyRunning(status) == status \in {"Pending", "Ready"}

\* is_condition_true of verify_pod_condition(pod, "Ready"): some condition
\* of the pod has type "Ready" and status "True".
IsConditionTrue(status) == status = "Ready"

Event(type, status) == [type |-> type, status |-> status]

\* api.watch(&lp, "0"): the stream starts with a synthetic Added event for
\* the object when it exists.
WatchStart(p) == IF pods[p] = "Absent" THEN <<>>
                 ELSE <<Event("Added", pods[p])>>

\* A resource as the API returns it: its name, the uid of its creation and
\* the version of its status. NoObj is T::default().
NoObj == [name |-> "", uid |-> 0, status |-> 0]

\* The name in the YAML specification of the test's resource, and the name
\* of the custom resource definition.
ResName == "r1"
CrdName == "crd"

\* Result<_>: Ok with its value, or Err with what the message names.
NoResult == [kind |-> "none", name |-> "", secs |-> 0, value |-> NoObj]
Ok(v) == [kind |-> "Ok", name |-> "", secs |-> 0, value |-> v]
ErrApi == [kind |-> "Err_api", name |-> "", secs |-> 0, value |-> NoObj]
\* anyhow!("Resource [{}] could not be ... within {} seconds.", name, secs)
ErrTimeout(name, secs) ==
    [kind |-> "Err_timeout", name |-> name, secs |-> secs, value |-> NoObj]

InWaitReady == pc \in {"wr_check", "wr_sleep", "wr_verify", "vs_get", "vs_loop"}
InWaitTerminated == pc \in {"wt_check", "wt_sleep"}
Terminal == pc \in {"dropped", "aborted", "drop_panicked"}

\* ------------------------------------------------------------------ Init

\* TestCluster::new: cluster is None; the timeouts are the caller's.
Init ==
    /\ cluster = "None"
    /\ timeouts \in [cluster_ready : ReadyTimeouts, pods_terminated : TermTimeouts]
    /\ pc = "idle"
    /\ op = "none"
    /\ arg = "None"
    /\ expected = 0
    /\ elapsed = 0
    /\ created_pods = {}
    /\ todo = {}
    /\ watched = 0
    /\ stream = <<>>
    /\ accepted = <<>>
    /\ result = "none"
    /\ kerr = "none"
    /\ panicking = FALSE
    /\ taken = "None"
    /\ deleteCalls = 0
    /\ listCalls = 0
    /\ mismatches = 0
    /\ polled = {}
    /\ pods = [p \in PodIds |-> "Absent"]
    /\ tpc = "start"
    /\ tr_resource = NoObj
    /\ tr_deleted = <<>>
    /\ t_panicking = FALSE
    /\ k_last = "none"
    /\ k_arg = NoObj
    /\ k_watch = ""
    /\ k_inflight = <<>>
    /\ k_stream = <<>>
    /\ k_consumed = <<>>
    /\ k_mutation = <<>>
    /\ k_result = NoResult
    /\ srv = [phase |-> "absent", obj |-> NoObj]
    /\ crd = "absent"
    /\ nextUid = 1
    /\ vs_timeout = 0
    /\ vs_pred = "none"
    /\ vs_clock = 0
    /\ vs_read = NoObj
    /\ vs_events = <<>>
    /\ vs_sat = FALSE
    /\ cc_pc = [t \in Callers |-> "idle"]
    /\ cc_running = {}
    /\ cc_issued = <<>>
    /\ cc_done = <<>>
    /\ cc_next = 1
    /\ REPO_CREATED = "unset"
    /\ rp_pc = [t \in Callers |-> "idle"]
    /\ rp_variant = [t \in Callers |-> "none"]
    /\ rp_result = [t \in Callers |-> "none"]
    /\ rp_calls = 0
    /\ rp_crd_runs = 0
    /\ rp_apply_runs = 0
    /\ nm_in = <<>>
    /\ nm_uid = 0
    /\ nm_out = [panic |-> FALSE, name |-> <<>>]
    /\ ck_pods = <<>>
    /\ ck_cutoff = [some |-> FALSE, t |-> 0]
    /\ ck_result = [kind |-> "none", pod |-> 0]
    /\ ck_labels = <<>>
    /\ ck_version = 0
    /\ ck_vresult = [kind |-> "none", pod |-> 0]
    /\ ls_additional = [some |-> FALSE, map |-> <<>>]
    /\ ls_selector = <<>>
    /\ ls_result = [kind |-> "none", items |-> {}]
    /\ un_pc = "start"
    /\ un_yaml = [name |-> [style |-> "absent", text |-> <<>>],
                  field |-> [style |-> "absent", text |-> <<>>]]
    /\ un_uuid = ""
    /\ un_out = [name |-> [style |-> "absent", text |-> <<>>],
                 field |-> [style |-> "absent", text |-> <<>>]]
    /\ un_stored = [kind |-> "None", name |-> <<>>, field |-> <<>>]
    /\ un_found = [kind |-> "none", name |-> <<>>, field |-> <<>>]

\* ------------------------------------------------- panics and returns

\* A panic: expect() on the Err of a KubeClient call. In the test body it
\* unwinds the test (the TestCluster is dropped on the way); inside drop it
\* leaves drop, and aborts the process when the thread is already
\* unwinding.
Panic(e) ==
    /\ kerr' = e
    /\ panicking' = TRUE
    /\ pc' = IF op = "drop"
             THEN (IF panicking THEN "aborted" ELSE "drop_panicked")
             ELSE "unwinding"

\* A wait hands its Result to its caller: the test (directly or through
\* the `?` of create_or_update), or drop, which ends after it.
Return(r) ==
    /\ result' = r
    /\ pc' = IF op = "drop" THEN "dropped" ELSE "idle"

\* The locals of a call that begins: nothing listed, nothing verified, no
\* watch open, the clock of the wait at its start.
Fresh ==
    /\ elapsed' = 0
    /\ listCalls' = 0
    /\ mismatches' = 0
    /\ created_pods' = {}
    /\ todo' = {}
    /\ accepted' = <<>>
    /\ polled' = {}
    /\ watched' = 0
    /\ stream' = <<>>

\* ----------------------------------------------------- create_or_update

\* create_or_update with its two calls in the other order: the wait first.
CreateOrUpdate_WaitsFirst(c, n) ==
    /\ pc = "idle"
    /\ pc' = "wr_check"
    /\ op' = "create_or_update"
    /\ arg' = c
    /\ expected' = n
    /\ result' = "none"
    /\ Fresh
    /\ UNCHANGED <<cluster, timeouts, kerr, panicking, taken, deleteCalls, pods>>
    /\ UNCHANGED <<kcVars, auxVars>>

\* create_or_update(cluster, expected_pod_count), entered from the test.
CreateOrUpdate(c, n) ==
    /\ pc = "idle"
    /\ pc' = "apply"
    /\ op' = "create_or_update"
    /\ arg' = c
    /\ expected' = n
    /\ result' = "none"
    /\ Fresh
    /\ UNCHANGED <<cluster, timeouts, kerr, panicking, taken, deleteCalls, pods>>
    /\ UNCHANGED <<kcVars, auxVars>>

\* (mutant) the field written before the outcome of the apply is known.
Apply_AssignsFirst(outcome) ==
    /\ pc = "apply"
    /\ cluster' = arg
    /\ \/ /\ outcome = "yaml_err"
          /\ result' = "Err_yaml"
          /\ pc' = "idle"
          /\ UNCHANGED <<kerr, panicking>>
       \/ /\ outcome = "panic"
          /\ Panic("apply")
          /\ UNCHANGED result
       \/ /\ outcome = "ok"
          /\ pc' = "apply_sleep"
          /\ UNCHANGED <<result, kerr, panicking>>
    /\ UNCHANGED <<timeouts, op, arg, expected, elapsed, created_pods, todo,
                   watched, stream, accepted, taken, deleteCalls, listCalls,
                   mismatches, polled, pods>>
    /\ UNCHANGED <<kcVars, auxVars>>

\* apply: self.cluster = Some(self.client.apply(&serde_yaml::to_string(cluster)?))
\* The `?` returns the serialization error and client.apply panics on an
\* API error, both before the assignment.
Apply(outcome) ==
    /\ pc = "apply"
    /\ \/ /\ outcome = "yaml_err"
          /\ result' = "Err_yaml"
          /\ pc' = "idle"
          /\ UNCHANGED <<cluster, kerr, panicking>>
       \/ /\ outcome = "panic"
          /\ Panic("apply")
          /\ UNCHANGED <<cluster, result>>
       \/ /\ outcome = "ok"
          /\ cluster' = arg
          /\ pc' = "apply_sleep"
          /\ UNCHANGED <<result, kerr, panicking>>
    /\ UNCHANGED <<timeouts, op, arg, expected, elapsed, created_pods, todo,
                   watched, stream, accepted, taken, deleteCalls, listCalls,
                   mismatches, polled, pods>>
    /\ UNCHANGED <<kcVars, auxVars>>

\* thread::sleep(2 s) of apply, Ok(()), and the entry of wait_ready:
\* let now = Instant::now()
ApplySleep ==
    /\ pc = "apply_sleep"
    /\ pc' = "wr_check"
    /\ Fresh
    /\ UNCHANGED <<cluster, timeouts, op, arg, expected, result, kerr,
                   panicking, taken, deleteCalls, pods>>
    /\ UNCHANGED <<kcVars, auxVars>>

\* ------------------------------------------------------------ wait_ready

\* wait_ready(expected_pod_count), called by the test itself.
WaitReady(n) ==
    /\ pc = "idle"
    /\ pc' = "wr_check"
    /\ op' = "wait_ready"
    /\ expected' = n
    /\ result' = "none"
    /\ arg' = "None"
    /\ Fresh
    /\ UNCHANGED <<cluster, timeouts, kerr, panicking, taken, deleteCalls, pods>>
    /\ UNCHANGED <<kcVars, auxVars>>

\* One turn of the loop: the deadline holds, the pods are listed and
\* counted. list_labeled panics when the API call fails.
WrPoll ==
    /\ pc = "wr_check"
    /\ WithinDeadline(elapsed, timeouts.cluster_ready)
    /\ \/ /\ created_pods' = ListPods
          /\ polled' = {p \in PodIds : pods[p] # "Absent"}
          /\ listCalls' = listCalls + 1
          /\ mismatches' = IF Cardinality(polled') = expected
                           THEN mismatches ELSE mismatches + 1
          /\ IF CountMatches(ListPods, expected)
             THEN /\ pc' = "wr_verify"
                  /\ todo' = ListPods
             ELSE /\ pc' = "wr_sleep"
                  /\ UNCHANGED todo
          /\ UNCHANGED <<kerr, panicking>>
       \/ /\ Panic("list")
          /\ listCalls' = listCalls + 1
          /\ UNCHANGED <<created_pods, polled, todo, mismatches>>
    /\ UNCHANGED <<cluster, timeouts, op, arg, expected, elapsed, watched,
                   stream, accepted, result, taken, deleteCalls, pods>>
    /\ UNCHANGED <<kcVars, auxVars>>

\* thread::sleep(Duration::from_secs(2)); continue
WrSleep ==
    /\ pc = "wr_sleep"
    /\ \E j \in 0..MaxJitter :
          elapsed' = elapsed + FromSecs(ReadySleepSecs) + j
    /\ pc' = "wr_check"
    /\ UNCHANGED <<cluster, timeouts, op, arg, expected, created_pods, todo,
                   watched, stream, accepted, result, kerr, panicking, taken,
                   deleteCalls, listCalls, mismatches, polled, pods>>
    /\ UNCHANGED <<kcVars, auxVars>>

\* The loop condition fails: Err("Cluster did not startup within ...").
WrTimeout ==
    /\ pc = "wr_check"
    /\ ~WithinDeadline(elapsed, timeouts.cluster_ready)
    /\ Return("Err_ready_timeout")
    /\ UNCHANGED <<cluster, timeouts, op, arg, expected, elapsed, created_pods,
                   todo, watched, stream, accepted, kerr, panicking, taken,
                   deleteCalls, listCalls, mismatches, polled, pods>>
    /\ UNCHANGED <<kcVars, auxVars>>

\* The next pod of `for pod in created_pods`: the list keeps the order of
\* the server, which is the order of the names.
NextPod(s) == CHOOSE p \in s : \A q \in s : p <= q

\* verify_pod_condition(pod, "Ready") begins with api.watch on the pod's
\* name (verify_status).
VsWatch ==
    /\ pc = "wr_verify"
    /\ todo # {}
    /\ LET p == NextPod(todo) IN
          \/ /\ watched' = p
             /\ stream' = WatchStart(p)
             /\ pc' = "vs_get"
             /\ UNCHANGED <<kerr, panicking>>
          \/ /\ Panic("watch")
             /\ UNCHANGED <<watched, stream>>
    /\ UNCHANGED <<cluster, timeouts, op, arg, expected, elapsed, created_pods,
                   todo, accepted, result, taken, deleteCalls, listCalls,
                   mismatches, polled, pods>>
    /\ UNCHANGED <<kcVars, auxVars>>

\* let resource = api.get_status(name).await?; if predicate(&resource)
\* { return Ok(resource) }
VsGetStatus ==
    /\ pc = "vs_get"
    /\ IF pods[watched] = "Absent"
       THEN /\ Panic("get_status")
            /\ UNCHANGED <<todo, accepted, watched, stream>>
       ELSE IF IsConditionTrue(pods[watched])
       THEN /\ todo' = todo \ {watched}
            /\ accepted' = accepted @@ (watched :> pods[watched])
            /\ watched' = 0
            /\ stream' = <<>>
            /\ pc' = "wr_verify"
            /\ UNCHANGED <<kerr, panicking>>
       ELSE /\ pc' = "vs_loop"
            /\ UNCHANGED <<todo, accepted, watched, stream, kerr, panicking>>
    /\ UNCHANGED <<cluster, timeouts, op, arg, expected, elapsed, created_pods,
                   result, taken, deleteCalls, listCalls, mismatches, polled,
                   pods>>
    /\ UNCHANGED <<kcVars, auxVars>>

\* while let Some(status) = stream.try_next().await? : a Modified event
\* whose resource fulfils the predicate ends the wait, any other is skipped.
VsEvent ==
    /\ pc = "vs_loop"
    /\ stream # <<>>
    /\ LET e == Head(stream) IN
       IF e.type = "Modified" /\ IsConditionTrue(e.status)
       THEN /\ todo' = todo \ {watched}
            /\ accepted' = accepted @@ (watched :> e.status)
            /\ watched' = 0
            /\ stream' = <<>>
            /\ pc' = "wr_verify"
       ELSE /\ stream' = Tail(stream)
            /\ UNCHANGED <<todo, accepted, watched, pc>>
    /\ UNCHANGED <<cluster, timeouts, op, arg, expected, elapsed, created_pods,
                   result, kerr, panicking, taken, deleteCalls, listCalls,
                   mismatches, polled, pods>>
    /\ UNCHANGED <<kcVars, auxVars>>

\* The stream ends after the verify_status timeout (every buffered event
\* read) or breaks: verify_status returns Err, which
\* TestKubeClient::verify_pod_condition unwraps with expect.
VsStreamEnd ==
    /\ pc = "vs_loop"
    /\ \/ /\ stream = <<>>
          /\ Panic("verify_timeout")
       \/ Panic("stream")
    /\ UNCHANGED <<cluster, timeouts, op, arg, expected, elapsed, created_pods,
                   todo, watched, stream, accepted, result, taken, deleteCalls,
                   listCalls, mismatches, polled, pods>>
    /\ UNCHANGED <<kcVars, auxVars>>

\* Every pod verified: println "Installation finished"; return Ok(())
WrDone ==
    /\ pc = "wr_verify"
    /\ todo = {}
    /\ Return("Ok")
    /\ UNCHANGED <<cluster, timeouts, op, arg, expected, elapsed, created_pods,
                   todo, watched, stream, accepted, kerr, panicking, taken,
                   deleteCalls, listCalls, mismatches, polled, pods>>
    /\ UNCHANGED <<kcVars, auxVars>>

\* ---------------------------------------------- wait_for_pods_terminated

\* wait_for_pods_terminated(), called by the test itself.
WaitForPodsTerminated ==
    /\ pc = "idle"
    /\ pc' = "wt_check"
    /\ op' = "wait_for_pods_terminated"
    /\ result' = "none"
    /\ arg' = "None"
    /\ expected' = 0
    /\ Fresh
    /\ UNCHANGED <<cluster, timeouts, kerr, panicking, taken, deleteCalls, pods>>
    /\ UNCHANGED <<kcVars, auxVars>>

\* One turn of the loop: the deadline holds, the pods are listed; an empty
\* list returns Ok(()), any pod keeps the wait going.
WtPoll ==
    /\ pc = "wt_check"
    /\ WithinDeadline(elapsed, timeouts.pods_terminated)
    /\ listCalls' = listCalls + 1
    /\ \/ /\ created_pods' = ListPods
          /\ polled' = {p \in PodIds : pods[p] # "Absent"}
          /\ IF ListPods = {}
             THEN Return("Ok")
             ELSE /\ pc' = "wt_sleep"
                  /\ UNCHANGED result
          /\ UNCHANGED <<kerr, panicking>>
       \/ /\ Panic("list")
          /\ UNCHANGED <<created_pods, polled, result>>
    /\ UNCHANGED <<cluster, timeouts, op, arg, expected, elapsed, todo, watched,
                   stream, accepted, taken, deleteCalls, mismatches, pods>>
    /\ UNCHANGED <<kcVars, auxVars>>

\* thread::sleep(Duration::from_secs(1))
WtSleep ==
    /\ pc = "wt_sleep"
    /\ \E j \in 0..MaxJitter :
          elapsed' = elapsed + FromSecs(TermSleepSecs) + j
    /\ pc' = "wt_check"
    /\ UNCHANGED <<cluster, timeouts, op, arg, expected, created_pods, todo,
                   watched, stream, accepted, result, kerr, panicking, taken,
                   deleteCalls, listCalls, mismatches, polled, pods>>
    /\ UNCHANGED <<kcVars, auxVars>>

\* The loop condition fails: Err("Pods did not terminate within ...").
WtTimeout ==
    /\ pc = "wt_check"
    /\ ~WithinDeadline(elapsed, timeouts.pods_terminated)
    /\ Return("Err_terminated_timeout")
    /\ UNCHANGED <<cluster, timeouts, op, arg, expected, elapsed, created_pods,
                   todo, watched, stream, accepted, kerr, panicking, taken,
                   deleteCalls, listCalls, mismatches, polled, pods>>
    /\ UNCHANGED <<kcVars, auxVars>>

\* What the Err of a wait says: self.log puts the kind and the name of the
\* cluster in front, and format! fills the text with its one argument, the
\* whole seconds of the timeout.
ErrorMessage(r) ==
    IF r = "Err_ready_timeout"
    THEN [kind |-> "T::kind", name |-> "instance_name",
          text |-> "Cluster did not startup within the specified timeout of",
          secs |-> AsSecs(timeouts.cluster_ready)]
    ELSE [kind |-> "T::kind", name |-> "instance_name",
          text |-> "Pods did not terminate within the specified timeout of",
          secs |-> AsSecs(timeouts.pods_terminated)]

\* ------------------------------------------------------------------ drop

\* (mutant) drop reads the field (as_ref / clone) and leaves it set.
Drop_KeepsField ==
    /\ pc \in {"idle", "unwinding"}
    /\ op' = "drop"
    /\ taken' = cluster
    /\ pc' = IF cluster # "None" THEN "drop_delete" ELSE "dropped"
    /\ result' = "none"
    /\ arg' = "None"
    /\ expected' = 0
    /\ Fresh
    /\ UNCHANGED <<cluster, timeouts, kerr, panicking, deleteCalls, pods>>
    /\ UNCHANGED <<kcVars, auxVars>>

\* Drop for TestCluster, at the end of the test's scope or while the test
\* unwinds: if let Some(cluster) = self.cluster.take() { ... }
\* (mutant) drop without the `if let Some`: the delete is issued whatever
\* the field holds.
Drop_DeletesUnset ==
    /\ pc \in {"idle", "unwinding"}
    /\ op' = "drop"
    /\ taken' = cluster
    /\ cluster' = "None"
    /\ pc' = "drop_delete"
    /\ result' = "none"
    /\ arg' = "None"
    /\ expected' = 0
    /\ Fresh
    /\ UNCHANGED <<timeouts, kerr, panicking, deleteCalls, pods>>
    /\ UNCHANGED <<kcVars, auxVars>>

Drop ==
    /\ pc \in {"idle", "unwinding"}
    /\ op' = "drop"
    /\ taken' = cluster
    /\ cluster' = "None"
    /\ pc' = IF cluster # "None" THEN "drop_delete" ELSE "dropped"
    /\ result' = "none"
    /\ arg' = "None"
    /\ expected' = 0
    /\ Fresh
    /\ UNCHANGED <<timeouts, kerr, panicking, deleteCalls, pods>>
    /\ UNCHANGED <<kcVars, auxVars>>

\* self.client.delete(cluster), which panics when the deletion fails or is
\* not observed in time; then the entry of wait_for_pods_terminated.
DropDelete ==
    /\ pc = "drop_delete"
    /\ deleteCalls' = deleteCalls + 1
    /\ \/ /\ pc' = "wt_check"
          /\ UNCHANGED <<kerr, panicking>>
       \/ Panic("delete")
    /\ UNCHANGED <<cluster, timeouts, op, arg, expected, elapsed, created_pods,
                   todo, watched, stream, accepted, result, taken, listCalls,
                   mismatches, polled, pods>>
    /\ UNCHANGED <<kcVars, auxVars>>

\* ---------------------------------------------------- the read operations

\* Labels and creation timestamps of the pods (0: no label, no timestamp).
PodVersion(p) == p % 3
PodCreated(p) == p

\* list(additional_labels), list_nodes(selector): Vec of the items, or the
\* panic of list_labeled.
List ==
    /\ pc = "idle"
    /\ \E o \in {"list", "list_nodes"} : op' = o
    /\ \/ /\ result' = "Ok"
          /\ UNCHANGED <<pc, kerr, panicking>>
       \/ /\ Panic("list")
          /\ UNCHANGED result
    /\ arg' = "None"
    /\ expected' = 0
    /\ Fresh
    /\ UNCHANGED <<cluster, timeouts, taken, deleteCalls, pods>>
    /\ UNCHANGED <<kcVars, auxVars>>

\* apply_command(command): the command applied, 2 s slept, Ok(cmd).
ApplyCommand(outcome) ==
    /\ pc = "idle"
    /\ op' = "apply_command"
    /\ \/ /\ outcome = "yaml_err"
          /\ result' = "Err_yaml"
          /\ UNCHANGED <<pc, kerr, panicking>>
       \/ /\ outcome = "panic"
          /\ Panic("apply")
          /\ UNCHANGED result
       \/ /\ outcome = "ok"
          /\ result' = "Ok"
          /\ UNCHANGED <<pc, kerr, panicking>>
    /\ arg' = "None"
    /\ expected' = 0
    /\ Fresh
    /\ UNCHANGED <<cluster, timeouts, taken, deleteCalls, pods>>
    /\ UNCHANGED <<kcVars, auxVars>>

\* check_pod_creation_timestamp(creation_timestamp): Err for the first pod
\* with pod_creation_timestamp < creation_timestamp.
CheckPodCreationTimestamp(ts) ==
    /\ pc = "idle"
    /\ op' = "check_pod_creation_timestamp"
    /\ \/ /\ result' = IF \E p \in ListPods : PodCreated(p) < ts
                       THEN "Err_older_timestamp" ELSE "Ok"
          /\ UNCHANGED <<pc, kerr, panicking>>
       \/ /\ Panic("list")
          /\ UNCHANGED result
    /\ arg' = "None"
    /\ expected' = 0
    /\ Fresh
    /\ UNCHANGED <<cluster, timeouts, taken, deleteCalls, pods>>
    /\ UNCHANGED <<kcVars, auxVars>>

\* check_pod_version(version): Err for the first pod without the version
\* label or with another version.
CheckPodVersion(version) ==
    /\ pc = "idle"
    /\ op' = "check_pod_version"
    /\ \/ /\ result' = IF \E p \in ListPods :
                              PodVersion(p) = 0 \/ PodVersion(p) # version
                       THEN "Err_version" ELSE "Ok"
          /\ UNCHANGED <<pc, kerr, panicking>>
       \/ /\ Panic("list")
          /\ UNCHANGED result
    /\ arg' = "None"
    /\ expected' = 0
    /\ Fresh
    /\ UNCHANGED <<cluster, timeouts, taken, deleteCalls, pods>>
    /\ UNCHANGED <<kcVars, auxVars>>

\* ------------------------------------------------------------ the server

\* The phase changes the operator and the kubelet make to a pod.
PodMoves == {<<"Absent", "Pending">>, <<"Pending", "Ready">>,
             <<"Ready", "Pending">>, <<"Pending", "Terminating">>,
             <<"Ready", "Terminating">>, <<"Terminating", "Absent">>}

EventType(from, to) == IF from = "Absent" THEN "Added"
                       ELSE IF to = "Absent" THEN "Deleted"
                       ELSE "Modified"

\* A pod changes on the server; an open watch on its name receives the
\* event.
PodStep(p, to) ==
    /\ ~Terminal
    /\ <<pods[p], to>> \in PodMoves
    /\ pods' = [pods EXCEPT ![p] = to]
    /\ IF pc \in {"vs_get", "vs_loop"} /\ watched = p
       THEN /\ Len(stream) < MaxStream
            /\ stream' = Append(stream, Event(EventType(pods[p], to), to))
       ELSE UNCHANGED stream
    /\ UNCHANGED <<cluster, timeouts, pc, op, arg, expected, elapsed,
                   created_pods, todo, watched, accepted, result, kerr,
                   panicking, taken, deleteCalls, listCalls, mismatches, polled>>
    /\ UNCHANGED <<kcVars, auxVars>>

\* ------------------------------------------------------------------ Next

Next ==
    \/ \E c \in Clusters, n \in 0..MaxPods : CreateOrUpdate(c, n)
    \/ \E o \in {"ok", "yaml_err", "panic"} : Apply(o)
    \/ ApplySleep
    \/ \E n \in 0..MaxPods : WaitReady(n)
    \/ WrPoll
    \/ WrSleep
    \/ WrTimeout
    \/ VsWatch
    \/ VsGetStatus
    \/ VsEvent
    \/ VsStreamEnd
    \/ WrDone
    \/ WaitForPodsTerminated
    \/ WtPoll
    \/ WtSleep
    \/ WtTimeout
    \/ Drop
    \/ DropDelete
    \/ List
    \/ \E o \in {"ok", "yaml_err", "panic"} : ApplyCommand(o)
    \/ \E ts \in 0..(MaxPods + 1) : CheckPodCreationTimestamp(ts)
    \/ \E v \in 1..2 : CheckPodVersion(v)
    \/ \E p \in PodIds, to \in Phases : PodStep(p, to)

Spec == Init /\ [][Next]_vars

\* =================== KubeClient and TemporaryResource ===================

Range(q) == {q[i] : i \in DOMAIN q}

KEvent(type, obj) == [type |-> type, obj |-> obj]

\* The custom resource definition as the API returns it; status 1 stands
\* for the condition NamesAccepted = True.
CrdObj == [name |-> CrdName, uid |-> 0, status |-> IF crd = "accepted" THEN 1 ELSE 0]

\* is_ready of apply_crd: some condition has type "NamesAccepted" and
\* status "True".
IsReady(obj) == obj.status = 1

\* api.watch(&list_params, "0") on metadata.name: the subscription begins
\* with a synthetic Added event for the object when it exists.
KWatchStart(name) ==
    IF name = CrdName
    THEN (IF crd = "absent" THEN <<>> ELSE <<KEvent("Added", CrdObj)>>)
    ELSE IF name = ResName /\ srv.phase # "absent"
    THEN <<KEvent("Added", srv.obj)>>
    ELSE <<>>

\* The server queues an event for the open subscription that selects name.
Notify(name, ev) ==
    k_inflight' = IF k_watch = name THEN Append(k_inflight, ev) ELSE k_inflight

\* self.timeouts.<op>.as_secs() as u32
TimeoutSecs(secs) == AsSecs(FromSecs(secs))

StartPcs == {"start", "crd_watch", "crd_patch", "crd_get", "crd_loop",
             "create_watch", "create_post", "create_loop"}
DropPcs == {"delete_watch", "delete_call", "delete_loop"}
KTerminal == tpc \in {"dropped", "aborted", "drop_panicked", "panicked"}

\* A KubeClient operation returns Err and TestKubeClient unwraps it with
\* expect: before the TemporaryResource exists the test just panics, in
\* the test body it unwinds through drop, inside drop the panic leaves drop
\* (and aborts when the thread was already unwinding).
KPanic(e) ==
    /\ k_result' = e
    /\ t_panicking' = TRUE
    /\ k_watch' = ""
    /\ k_inflight' = <<>>
    /\ k_stream' = <<>>
    /\ tpc' = IF tpc \in StartPcs THEN "panicked"
              ELSE IF tpc \in DropPcs
              THEN (IF t_panicking THEN "aborted" ELSE "drop_panicked")
              ELSE "unwinding"

\* A KubeClient operation begins: no result yet, no stream.
KFresh(o) ==
    /\ k_last' = o
    /\ k_result' = NoResult
    /\ k_watch' = ""
    /\ k_inflight' = <<>>
    /\ k_stream' = <<>>
    /\ k_consumed' = <<>>
    /\ k_mutation' = <<>>

\* let mut stream = api.watch(&list_params, "0").await?.boxed()
KWatch(name, next) ==
    \/ /\ k_watch' = name
       /\ k_stream' = KWatchStart(name)
       /\ tpc' = next
       /\ UNCHANGED <<k_inflight, k_result, t_panicking>>
    \/ KPanic(ErrApi)

\* ---------------------------------------------------------- apply_crd

\* TestKubeClient::apply_crd(crd), called before the resource is created.
ApplyCrd ==
    /\ tpc = "start"
    /\ tpc' = "crd_watch"
    /\ KFresh("apply_crd")
    /\ UNCHANGED <<tr_resource, tr_deleted, t_panicking, k_arg, srv, crd, nextUid>>
    /\ UNCHANGED <<tcVars, auxVars>>

\* crds.watch(&lp, "0")
CrdWatch ==
    /\ tpc = "crd_watch"
    /\ KWatch(CrdName, "crd_patch")
    /\ UNCHANGED <<tr_resource, tr_deleted, k_last, k_arg, k_consumed,
                   k_mutation, srv, crd, nextUid>>
    /\ UNCHANGED <<tcVars, auxVars>>

\* crds.patch(name, &apply_params, &Patch::Apply(crd)).await?
CrdPatch ==
    /\ tpc = "crd_patch"
    /\ \/ /\ crd' = IF crd = "absent" THEN "present" ELSE crd
          /\ LET ev == KEvent(IF crd = "absent" THEN "Added" ELSE "Modified", CrdObj)
             IN /\ k_mutation' = <<ev>>
                /\ Notify(CrdName, ev)
          /\ tpc' = "crd_get"
          /\ UNCHANGED <<k_result, t_panicking, k_watch, k_stream>>
       \/ /\ KPanic(ErrApi)
          /\ UNCHANGED <<crd, k_mutation>>
    /\ UNCHANGED <<tr_resource, tr_deleted, k_last, k_arg, k_consumed, srv, nextUid>>
    /\ UNCHANGED <<tcVars, auxVars>>

\* if crds.get(name).await.is_ok() { return Ok(()) }
CrdGet ==
    /\ tpc = "crd_get"
    /\ \/ /\ crd # "absent"
          /\ k_result' = Ok(CrdObj)
          /\ k_watch' = ""
          /\ k_inflight' = <<>>
          /\ k_stream' = <<>>
          /\ tpc' = "start"
       \/ /\ tpc' = "crd_loop"
          /\ UNCHANGED <<k_result, k_watch, k_inflight, k_stream>>
    /\ UNCHANGED <<tr_resource, tr_deleted, t_panicking, k_last, k_arg,
                   k_consumed, k_mutation, srv, crd, nextUid>>
    /\ UNCHANGED <<tcVars, auxVars>>

\* while let Some(status) = stream.try_next().await? : a Modified event
\* whose CRD is_ready returns Ok(()); the end of the stream is the timeout
\* error.
CrdLoop ==
    /\ tpc = "crd_loop"
    /\ \/ /\ k_stream # <<>>
          /\ k_consumed' = Append(k_consumed, Head(k_stream))
          /\ IF Head(k_stream).type = "Modified" /\ IsReady(Head(k_stream).obj)
             THEN /\ k_result' = Ok(Head(k_stream).obj)
                  /\ k_watch' = ""
                  /\ k_inflight' = <<>>
                  /\ k_stream' = <<>>
                  /\ tpc' = "start"
             ELSE /\ k_stream' = Tail(k_stream)
                  /\ UNCHANGED <<k_result, k_watch, k_inflight, tpc>>
          /\ UNCHANGED t_panicking
       \/ /\ k_stream = <<>>
          /\ KPanic(ErrTimeout(CrdName, TimeoutSecs(ApplyCrdTimeoutSecs)))
          /\ UNCHANGED k_consumed
       \/ /\ KPanic(ErrApi)
          /\ UNCHANGED k_consumed
    /\ UNCHANGED <<tr_resource, tr_deleted, k_last, k_arg, k_mutation, srv, crd,
                   nextUid>>
    /\ UNCHANGED <<tcVars, auxVars>>

\* ------------------------------------- TemporaryResource::new and create

\* TemporaryResource::new(client, spec): let resource = client.create(spec)
TrNew ==
    /\ tpc = "start"
    /\ tpc' = "create_watch"
    /\ KFresh("create")
    /\ UNCHANGED <<tr_resource, tr_deleted, t_panicking, k_arg, srv, crd, nextUid>>
    /\ UNCHANGED <<tcVars, auxVars>>

\* create: api.watch(&list_params, "0") on the name of the resource
CreateWatch ==
    /\ tpc = "create_watch"
    /\ KWatch(ResName, "create_post")
    /\ UNCHANGED <<tr_resource, tr_deleted, k_last, k_arg, k_consumed,
                   k_mutation, srv, crd, nextUid>>
    /\ UNCHANGED <<tcVars, auxVars>>

\* create: api.create(&PostParams::default(), &resource).await?  The server
\* refuses a name that exists.
CreatePost ==
    /\ tpc = "create_post"
    /\ \/ /\ srv.phase = "absent"
          /\ LET obj == [name |-> ResName, uid |-> nextUid, status |-> 0] IN
                /\ srv' = [phase |-> "present", obj |-> obj]
                /\ k_mutation' = <<KEvent("Added", obj)>>
                /\ Notify(ResName, KEvent("Added", obj))
          /\ nextUid' = nextUid + 1
          /\ tpc' = "create_loop"
          /\ UNCHANGED <<k_result, t_panicking, k_watch, k_stream>>
       \/ /\ KPanic(ErrApi)
          /\ UNCHANGED <<srv, nextUid, k_mutation>>
    /\ UNCHANGED <<tr_resource, tr_deleted, k_last, k_arg, k_consumed, crd>>
    /\ UNCHANGED <<tcVars, auxVars>>

\* if let WatchEvent::Added(resource) = status
CreateConfirms(type) == type = "Added"

\* (mutant) the end of the stream falls through to a success.
CreateLoop_SilentEnd ==
    /\ tpc = "create_loop"
    /\ \/ /\ k_stream # <<>>
          /\ k_consumed' = Append(k_consumed, Head(k_stream))
          /\ IF CreateConfirms(Head(k_stream).type)
             THEN /\ k_result' = Ok(Head(k_stream).obj)
                  /\ tr_resource' = Head(k_stream).obj
                  /\ k_watch' = ""
                  /\ k_inflight' = <<>>
                  /\ k_stream' = <<>>
                  /\ tpc' = "live"
             ELSE /\ k_stream' = Tail(k_stream)
                  /\ UNCHANGED <<k_result, tr_resource, k_watch, k_inflight, tpc>>
          /\ UNCHANGED t_panicking
       \/ /\ k_stream = <<>>
          /\ k_result' = Ok(NoObj)
          /\ tr_resource' = NoObj
          /\ k_watch' = ""
          /\ k_inflight' = <<>>
          /\ tpc' = "live"
          /\ UNCHANGED <<k_consumed, k_stream, t_panicking>>
       \/ /\ KPanic(ErrApi)
          /\ UNCHANGED <<k_consumed, tr_resource>>
    /\ UNCHANGED <<tr_deleted, k_last, k_arg, k_mutation, srv, crd, nextUid>>
    /\ UNCHANGED <<tcVars, auxVars>>

\* create: while let Some(status) = stream.try_next().await? : the first
\* Added event returns Ok(resource), with which new builds the
\* TemporaryResource; the end of the stream is the timeout error.
CreateLoop ==
    /\ tpc = "create_loop"
    /\ \/ /\ k_stream # <<>>
          /\ k_consumed' = Append(k_consumed, Head(k_stream))
          /\ IF CreateConfirms(Head(k_stream).type)
             THEN /\ k_result' = Ok(Head(k_stream).obj)
                  /\ tr_resource' = Head(k_stream).obj
                  /\ k_watch' = ""
                  /\ k_inflight' = <<>>
                  /\ k_stream' = <<>>
                  /\ tpc' = "live"
             ELSE /\ k_stream' = Tail(k_stream)
                  /\ UNCHANGED <<k_result, tr_resource, k_watch, k_inflight, tpc>>
          /\ UNCHANGED t_panicking
       \/ /\ k_stream = <<>>
          /\ KPanic(ErrTimeout(ResName, TimeoutSecs(CreateTimeoutSecs)))
          /\ UNCHANGED <<k_consumed, tr_resource>>
       \/ /\ KPanic(ErrApi)
          /\ UNCHANGED <<k_consumed, tr_resource>>
    /\ UNCHANGED <<tr_deleted, k_last, k_arg, k_mutation, srv, crd, nextUid>>
    /\ UNCHANGED <<tcVars, auxVars>>

\* ------------------------------------------------------------ test body

\* TemporaryResource::update: self.resource = self.client.get_status(&self.resource)
TrUpdate ==
    /\ tpc = "live"
    /\ k_last' = "get_status"
    /\ k_consumed' = <<>>
    /\ k_mutation' = <<>>
    /\ \/ /\ srv.phase # "absent"
          /\ tr_resource' = srv.obj
          /\ k_result' = Ok(srv.obj)
          /\ UNCHANGED <<tpc, t_panicking, k_watch, k_inflight, k_stream>>
       \/ /\ KPanic(ErrApi)
          /\ UNCHANGED tr_resource
    /\ UNCHANGED <<tr_deleted, k_arg, srv, crd, nextUid>>
    /\ UNCHANGED <<tcVars, auxVars>>

\* The test body panics (a failed assertion) while it holds the resource.
BodyPanic ==
    /\ tpc = "live"
    /\ tpc' = "unwinding"
    /\ t_panicking' = TRUE
    /\ UNCHANGED <<tr_resource, tr_deleted, k_last, k_arg, k_watch, k_inflight,
                   k_stream, k_consumed, k_mutation, k_result, srv, crd, nextUid>>
    /\ UNCHANGED <<tcVars, auxVars>>

\* ------------------------------------------------------------------ drop

\* (mutant) drop hands over what take() left in the field.
TrDrop_DeletesDefault ==
    /\ tpc \in {"live", "unwinding"}
    /\ k_arg' = NoObj
    /\ tr_resource' = NoObj
    /\ tr_deleted' = Append(tr_deleted, NoObj)
    /\ tpc' = "delete_watch"
    /\ KFresh("delete")
    /\ UNCHANGED <<t_panicking, srv, crd, nextUid>>
    /\ UNCHANGED <<tcVars, auxVars>>

\* Drop for TemporaryResource, at the end of the scope or while the test
\* unwinds: let resource = mem::take(&mut self.resource);
\* self.client.delete(resource)
TrDrop ==
    /\ tpc \in {"live", "unwinding"}
    /\ k_arg' = tr_resource
    /\ tr_resource' = NoObj
    /\ tr_deleted' = Append(tr_deleted, tr_resource)
    /\ tpc' = "delete_watch"
    /\ KFresh("delete")
    /\ UNCHANGED <<t_panicking, srv, crd, nextUid>>
    /\ UNCHANGED <<tcVars, auxVars>>

\* delete: api.watch(&list_params, "0") on the name of the resource
DeleteWatch ==
    /\ tpc = "delete_watch"
    /\ KWatch(k_arg.name, "delete_call")
    /\ UNCHANGED <<tr_resource, tr_deleted, k_last, k_arg, k_consumed,
                   k_mutation, srv, crd, nextUid>>
    /\ UNCHANGED <<tcVars, auxVars>>

\* What api.delete(name) does on the server: the object goes at once
\* (Either::Right, a Deleted event) or starts terminating (Either::Left, a
\* Modified event, none when it was terminating already).
DeleteOnServer(immediate) ==
    /\ srv.phase # "absent"
    /\ k_arg.name = ResName
    /\ IF immediate
       THEN /\ srv' = [phase |-> "absent", obj |-> NoObj]
            /\ k_mutation' = <<KEvent("Deleted", srv.obj)>>
            /\ Notify(ResName, KEvent("Deleted", srv.obj))
       ELSE IF srv.phase = "present"
       THEN /\ srv' = [srv EXCEPT !.phase = "terminating"]
            /\ k_mutation' = <<KEvent("Modified", srv.obj)>>
            /\ Notify(ResName, KEvent("Modified", srv.obj))
       ELSE UNCHANGED <<srv, k_mutation, k_inflight>>

\* (mutant) delete issues the delete call first and subscribes afterwards.
DeleteCall_WatchAfter ==
    /\ tpc = "delete_call"
    /\ \/ /\ DeleteOnServer(TRUE)
          /\ k_result' = Ok(NoObj)
          /\ k_watch' = ""
          /\ k_stream' = <<>>
          /\ tpc' = "dropped"
          /\ UNCHANGED t_panicking
       \/ /\ srv.phase # "absent"
          /\ k_arg.name = ResName
          /\ srv' = [srv EXCEPT !.phase = "terminating"]
          /\ k_mutation' = IF srv.phase = "present"
                           THEN <<KEvent("Modified", srv.obj)>> ELSE <<>>
          /\ k_inflight' = <<>>
          /\ k_stream' = <<KEvent("Added", srv.obj)>>
          /\ tpc' = "delete_loop"
          /\ UNCHANGED <<k_result, t_panicking, k_watch>>
       \/ /\ KPanic(ErrApi)
          /\ UNCHANGED <<srv, k_mutation>>
    /\ UNCHANGED <<tr_resource, tr_deleted, k_last, k_arg, k_consumed, crd, nextUid>>
    /\ UNCHANGED <<tcVars, auxVars>>

\* delete: let result = api.delete(name, &DeleteParams::default()).await?;
\* if result.is_right() { return Ok(()) }
DeleteCall ==
    /\ tpc = "delete_call"
    /\ \/ /\ DeleteOnServer(TRUE)
          /\ k_result' = Ok(NoObj)
          /\ k_watch' = ""
          /\ k_stream' = <<>>
          /\ tpc' = "dropped"
          /\ UNCHANGED t_panicking
       \/ /\ DeleteOnServer(FALSE)
          /\ tpc' = "delete_loop"
          /\ UNCHANGED <<k_result, t_panicking, k_watch, k_stream>>
       \/ /\ KPanic(ErrApi)
          /\ UNCHANGED <<srv, k_mutation>>
    /\ UNCHANGED <<tr_resource, tr_deleted, k_last, k_arg, k_consumed, crd, nextUid>>
    /\ UNCHANGED <<tcVars, auxVars>>

\* (mutant) delete takes the Modified event of a starting termination for
\* the confirmation as well.
DeleteConfirms_AnyChange(type) == type \in {"Deleted", "Modified"}

\* if let WatchEvent::Deleted(_) = status
DeleteConfirms(type) == type = "Deleted"

\* delete: while let Some(status) = stream.try_next().await? : the first
\* Deleted event returns Ok(()); the end of the stream is the timeout error.
DeleteLoop ==
    /\ tpc = "delete_loop"
    /\ \/ /\ k_stream # <<>>
          /\ k_consumed' = Append(k_consumed, Head(k_stream))
          /\ IF DeleteConfirms(Head(k_stream).type)
             THEN /\ k_result' = Ok(NoObj)
                  /\ k_watch' = ""
                  /\ k_inflight' = <<>>
                  /\ k_stream' = <<>>
                  /\ tpc' = "dropped"
             ELSE /\ k_stream' = Tail(k_stream)
                  /\ UNCHANGED <<k_result, k_watch, k_inflight, tpc>>
          /\ UNCHANGED t_panicking
       \/ /\ k_stream = <<>>
          /\ KPanic(ErrTimeout(k_arg.name, TimeoutSecs(DeleteTimeoutSecs)))
          /\ UNCHANGED k_consumed
       \/ /\ KPanic(ErrApi)
          /\ UNCHANGED k_consumed
    /\ UNCHANGED <<tr_resource, tr_deleted, k_last, k_arg, k_mutation, srv, crd,
                   nextUid>>
    /\ UNCHANGED <<tcVars, auxVars>>

\* ------------------------------------------------------------ the server

\* Events of other clients that the open subscription still takes.
RoomForEvent == Len(k_inflight) + Len(k_stream) < MaxKEvents

\* The server sends the oldest queued event down the watch stream.
SrvDeliver ==
    /\ k_watch # ""
    /\ k_inflight # <<>>
    /\ k_stream' = Append(k_stream, Head(k_inflight))
    /\ k_inflight' = Tail(k_inflight)
    /\ UNCHANGED <<tpc, tr_resource, tr_deleted, t_panicking, k_last, k_arg,
                   k_watch, k_consumed, k_mutation, k_result, srv, crd, nextUid>>
    /\ UNCHANGED <<tcVars, auxVars>>

\* Another client or a controller changes the test's resource: a status
\* update, the end of a termination, a deletion, a creation under the same
\* name.
SrvChange(kind) ==
    /\ ~KTerminal
    /\ k_watch = ResName => RoomForEvent
    /\ \/ /\ kind = "status"
          /\ srv.phase = "present"
          /\ srv.obj.status < MaxStatus
          /\ srv' = [srv EXCEPT !.obj.status = @ + 1]
          /\ Notify(ResName, KEvent("Modified", srv'.obj))
          /\ UNCHANGED nextUid
       \/ /\ kind = "gone"
          /\ srv.phase # "absent"
          /\ srv' = [phase |-> "absent", obj |-> NoObj]
          /\ Notify(ResName, KEvent("Deleted", srv.obj))
          /\ UNCHANGED nextUid
       \/ /\ kind = "created"
          /\ srv.phase = "absent"
          /\ nextUid <= MaxUid
          /\ srv' = [phase |-> "present",
                     obj |-> [name |-> ResName, uid |-> nextUid, status |-> 0]]
          /\ nextUid' = nextUid + 1
          /\ Notify(ResName, KEvent("Added", srv'.obj))
    /\ UNCHANGED <<tpc, tr_resource, tr_deleted, t_panicking, k_last, k_arg,
                   k_watch, k_stream, k_consumed, k_mutation, k_result, crd>>
    /\ UNCHANGED <<tcVars, auxVars>>

\* The API server accepts the names of the custom resource definition.
CrdAccept ==
    /\ ~KTerminal
    /\ crd = "present"
    /\ k_watch = CrdName => RoomForEvent
    /\ crd' = "accepted"
    /\ Notify(CrdName, KEvent("Modified", [CrdObj EXCEPT !.status = 1]))
    /\ UNCHANGED <<tpc, tr_resource, tr_deleted, t_panicking, k_last, k_arg,
                   k_watch, k_stream, k_consumed, k_mutation, k_result, srv,
                   nextUid>>
    /\ UNCHANGED <<tcVars, auxVars>>

NextKC ==
    \/ ApplyCrd
    \/ CrdWatch
    \/ CrdPatch
    \/ CrdGet
    \/ CrdLoop
    \/ TrNew
    \/ CreateWatch
    \/ CreatePost
    \/ CreateLoop
    \/ TrUpdate
    \/ BodyPanic
    \/ TrDrop
    \/ DeleteWatch
    \/ DeleteCall
    \/ DeleteLoop
    \/ SrvDeliver
    \/ \E kind \in {"status", "gone", "created"} : SrvChange(kind)
    \/ CrdAccept

SpecKC == Init /\ [][NextKC]_vars

\* ============================================ KubeClient::verify_status

\* The longest verify_status timeout of the caller, in seconds.
MaxVerifySecs == 2

\* Timeouts.verify_status as the caller set it through timeouts(): a
\* Duration with a fraction of a second, and one of whole seconds.
VerifyTimeouts == {FromSecs(1) + 1, FromSecs(MaxVerifySecs)}

\* The predicates P: Fn(&K) -> bool of the callers: the status advanced,
\* the status is still the initial one, and one that never holds.
Predicates == {"advanced", "initial", "never"}

Pred(pr, obj) ==
    IF pr = "advanced" THEN obj.status >= 1
    ELSE IF pr = "initial" THEN obj.status = 0
    ELSE FALSE

\* let timeout_secs = self.timeouts.verify_status.as_secs() as u32; the
\* server ends a watch with .timeout(timeout_secs) after that many seconds.
VerifyDeadline == FromSecs(AsSecs(vs_timeout))

\* verify_status hands its Result to the caller; the stream is dropped.
VsReturn(res) ==
    /\ k_result' = res
    /\ k_watch' = ""
    /\ k_inflight' = <<>>
    /\ k_stream' = <<>>
    /\ tpc' = "start"

\* client.verify_status(&resource, predicate) is called with the timeout
\* the caller configured.
VerifyStatus(t, pr) ==
    /\ tpc = "start"
    /\ tpc' = "verify_watch"
    /\ KFresh("verify_status")
    /\ vs_timeout' = t
    /\ vs_pred' = pr
    /\ vs_clock' = 0
    /\ vs_read' = NoObj
    /\ vs_events' = <<>>
    /\ vs_sat' = FALSE
    /\ UNCHANGED <<tr_resource, tr_deleted, t_panicking, k_arg, srv, crd, nextUid>>
    /\ UNCHANGED verifyFrame

\* let mut stream = api.watch(&lp, "0").await?.boxed()
VerifyWatch ==
    /\ tpc = "verify_watch"
    /\ \/ /\ k_watch' = ResName
          /\ k_stream' = KWatchStart(ResName)
          /\ tpc' = "verify_get"
          /\ UNCHANGED <<k_inflight, k_result>>
       \/ VsReturn(ErrApi)
    /\ UNCHANGED <<tr_resource, tr_deleted, t_panicking, k_last, k_arg,
                   k_consumed, k_mutation, srv, crd, nextUid>>
    /\ UNCHANGED vsVars
    /\ UNCHANGED verifyFrame

\* (mutant) the status is read first and the watch is opened after it.
VerifyGet_WatchAfter ==
    /\ tpc = "verify_get"
    /\ \/ /\ srv.phase # "absent"
          /\ vs_read' = srv.obj
          /\ IF Pred(vs_pred, srv.obj)
             THEN VsReturn(Ok(srv.obj))
             ELSE /\ tpc' = "verify_loop"
                  /\ k_stream' = KWatchStart(ResName)
                  /\ k_inflight' = <<>>
                  /\ UNCHANGED <<k_result, k_watch>>
       \/ /\ VsReturn(ErrApi)
          /\ UNCHANGED vs_read
    /\ UNCHANGED <<tr_resource, tr_deleted, t_panicking, k_last, k_arg,
                   k_consumed, k_mutation, srv, crd, nextUid>>
    /\ UNCHANGED <<vs_timeout, vs_pred, vs_clock, vs_events, vs_sat>>
    /\ UNCHANGED verifyFrame

\* let resource = api.get_status(&resource.name()).await?;
\* if predicate(&resource) { return Ok(resource) }
VerifyGet ==
    /\ tpc = "verify_get"
    /\ \/ /\ srv.phase # "absent"
          /\ vs_read' = srv.obj
          /\ IF Pred(vs_pred, srv.obj)
             THEN VsReturn(Ok(srv.obj))
             ELSE /\ tpc' = "verify_loop"
                  /\ UNCHANGED <<k_result, k_watch, k_inflight, k_stream>>
       \/ /\ VsReturn(ErrApi)
          /\ UNCHANGED vs_read
    /\ UNCHANGED <<tr_resource, tr_deleted, t_panicking, k_last, k_arg,
                   k_consumed, k_mutation, srv, crd, nextUid>>
    /\ UNCHANGED <<vs_timeout, vs_pred, vs_clock, vs_events, vs_sat>>
    /\ UNCHANGED verifyFrame

\* (mutant) the timeout error is raised as soon as no event is buffered.
VerifyStreamEnds_Early == k_stream = <<>>

\* stream.try_next() yields None: every buffered event was read and the
\* server has ended the watch at its timeout.
VerifyStreamEnds == k_stream = <<>> /\ vs_clock >= VerifyDeadline

\* while let Some(status) = stream.try_next().await? : a Modified event
\* whose resource fulfils the predicate returns Ok(resource); the end of
\* the stream is the timeout error.
VerifyLoop ==
    /\ tpc = "verify_loop"
    /\ \/ /\ k_stream # <<>>
          /\ k_consumed' = Append(k_consumed, Head(k_stream))
          /\ IF Head(k_stream).type = "Modified" /\ Pred(vs_pred, Head(k_stream).obj)
             THEN VsReturn(Ok(Head(k_stream).obj))
             ELSE /\ k_stream' = Tail(k_stream)
                  /\ UNCHANGED <<k_result, k_watch, k_inflight, tpc>>
       \/ /\ VerifyStreamEnds
          /\ VsReturn(ErrTimeout(ResName, AsSecs(vs_timeout)))
          /\ UNCHANGED k_consumed
       \/ /\ VsReturn(ErrApi)
          /\ UNCHANGED k_consumed
    /\ UNCHANGED <<tr_resource, tr_deleted, t_panicking, k_last, k_arg,
                   k_mutation, srv, crd, nextUid>>
    /\ UNCHANGED vsVars
    /\ UNCHANGED verifyFrame

\* Time passes while the watch is open, up to the moment the server ends it.
VerifyTick ==
    /\ tpc \in {"verify_get", "verify_loop"}
    /\ vs_clock < VerifyDeadline
    /\ vs_clock' = vs_clock + 1
    /\ UNCHANGED kcVars
    /\ UNCHANGED <<vs_timeout, vs_pred, vs_read, vs_events, vs_sat>>
    /\ UNCHANGED verifyFrame

\* The server sends the oldest queued event down the watch stream while
\* the watch lasts.
VerifyDeliver ==
    /\ vs_clock < VerifyDeadline
    /\ SrvDeliver

\* Another client or a controller changes the resource while a caller may
\* be verifying its status: a status update, a deletion, a creation under
\* the same name.
VerifySrvChange(kind) ==
    /\ k_watch = ResName => RoomForEvent
    /\ \/ /\ kind = "status"
          /\ srv.phase = "present"
          /\ srv.obj.status < MaxStatus
          /\ srv' = [srv EXCEPT !.obj.status = @ + 1]
          /\ Notify(ResName, KEvent("Modified", srv'.obj))
          /\ vs_events' = IF k_watch = ResName
                          THEN Append(vs_events, KEvent("Modified", srv'.obj))
                          ELSE vs_events
          /\ UNCHANGED nextUid
       \/ /\ kind = "gone"
          /\ srv.phase # "absent"
          /\ srv' = [phase |-> "absent", obj |-> NoObj]
          /\ Notify(ResName, KEvent("Deleted", srv.obj))
          /\ vs_events' = IF k_watch = ResName
                          THEN Append(vs_events, KEvent("Deleted", srv.obj))
                          ELSE vs_events
          /\ UNCHANGED nextUid
       \/ /\ kind = "created"
          /\ srv.phase = "absent"
          /\ nextUid <= MaxUid
          /\ srv' = [phase |-> "present",
                     obj |-> [name |-> ResName, uid |-> nextUid, status |-> 0]]
          /\ nextUid' = nextUid + 1
          /\ Notify(ResName, KEvent("Added", srv'.obj))
          /\ vs_events' = IF k_watch = ResName
                          THEN Append(vs_events, KEvent("Added", srv'.obj))
                          ELSE vs_events
    /\ vs_sat' = (vs_sat \/ (/\ k_watch = ResName
                             /\ vs_clock < VerifyDeadline
                             /\ srv'.phase # "absent"
                             /\ Pred(vs_pred, srv'.obj)))
    /\ UNCHANGED <<tpc, tr_resource, tr_deleted, t_panicking, k_last, k_arg,
                   k_watch, k_stream, k_consumed, k_mutation, k_result, crd>>
    /\ UNCHANGED <<vs_timeout, vs_pred, vs_clock, vs_read>>
    /\ UNCHANGED verifyFrame

\* Option<K>: Some with the resource, or None.
SomeOf(v) == [kind |-> "Some", name |-> "", secs |-> 0, value |-> v]
NoneOf == [kind |-> "None", name |-> "", secs |-> 0, value |-> NoObj]

\* (mutant) the error of the get is handed on instead of dropped.
Find_HandsErrorOn(o, api_ok) ==
    /\ tpc = "start"
    /\ k_last' = o
    /\ k_watch' = ""
    /\ k_inflight' = <<>>
    /\ k_stream' = <<>>
    /\ k_consumed' = <<>>
    /\ k_mutation' = <<>>
    /\ k_result' = IF ~api_ok THEN ErrApi
                   ELSE IF srv.phase # "absent" THEN SomeOf(srv.obj)
                   ELSE NoneOf
    /\ vs_timeout' = 0
    /\ vs_pred' = "none"
    /\ vs_clock' = 0
    /\ vs_read' = NoObj
    /\ vs_events' = <<>>
    /\ vs_sat' = FALSE
    /\ UNCHANGED <<tpc, tr_resource, tr_deleted, t_panicking, k_arg, srv, crd, nextUid>>
    /\ UNCHANGED verifyFrame

\* find(name) / find_namespaced(name): api.get(name).await.ok(). The get
\* answers with the resource, with "not found", or fails otherwise; ok()
\* turns every Err into None.
Find(o, api_ok) ==
    /\ tpc = "start"
    /\ k_last' = o
    /\ k_watch' = ""
    /\ k_inflight' = <<>>
    /\ k_stream' = <<>>
    /\ k_consumed' = <<>>
    /\ k_mutation' = <<>>
    /\ k_result' = IF api_ok /\ srv.phase # "absent" THEN SomeOf(srv.obj) ELSE NoneOf
    /\ vs_timeout' = 0
    /\ vs_pred' = "none"
    /\ vs_clock' = 0
    /\ vs_read' = NoObj
    /\ vs_events' = <<>>
    /\ vs_sat' = FALSE
    /\ UNCHANGED <<tpc, tr_resource, tr_deleted, t_panicking, k_arg, srv, crd, nextUid>>
    /\ UNCHANGED verifyFrame

NextVerify ==
    \/ \E t \in VerifyTimeouts, pr \in Predicates : VerifyStatus(t, pr)
    \/ VerifyWatch
    \/ VerifyGet
    \/ VerifyLoop
    \/ VerifyTick
    \/ VerifyDeliver
    \/ \E kind \in {"status", "gone", "created"} : VerifySrvChange(kind)
    \/ \E o \in {"find", "find_namespaced"}, api_ok \in BOOLEAN : Find(o, api_ok)

SpecVerify == Init /\ [][NextVerify]_vars

\* ====================================== TestKubeClient shared by threads

\* apply, create and delete of TestKubeClient, each
\* self.runtime.block_on(async { self.kube_client.<op>(..).await.expect(..) })
ClientOps == {"apply", "create", "delete"}

\* The operation a caller is blocked on.
OpOf(t) == {o \in cc_running : o.caller = t}

\* (mutant) the future is handed to the runtime and the caller goes on.
Call_Spawns(t, kind) ==
    /\ cc_pc[t] = "idle"
    /\ cc_next <= MaxOps
    /\ cc_running' = cc_running \cup {[id |-> cc_next, caller |-> t,
                                        kind |-> kind, phase |-> "request"]}
    /\ cc_issued' = Append(cc_issued, [id |-> cc_next, caller |-> t])
    /\ cc_next' = cc_next + 1
    /\ UNCHANGED <<cc_pc, cc_done>>
    /\ UNCHANGED clientFrame

\* A thread that holds &TestKubeClient calls an operation: block_on(&self)
\* takes no lock, starts to drive the future on the calling thread and
\* blocks that thread until the future has completed.
Call(t, kind) ==
    /\ cc_pc[t] = "idle"
    /\ cc_next <= MaxOps
    /\ cc_running' = cc_running \cup {[id |-> cc_next, caller |-> t,
                                        kind |-> kind, phase |-> "request"]}
    /\ cc_issued' = Append(cc_issued, [id |-> cc_next, caller |-> t])
    /\ cc_pc' = [cc_pc EXCEPT ![t] = "blocked"]
    /\ cc_next' = cc_next + 1
    /\ UNCHANGED cc_done
    /\ UNCHANGED clientFrame

\* The future passes an .await: the request is sent, the answer or the
\* watch event is awaited.
Progress(t) ==
    /\ \E o \in OpOf(t) :
          /\ o.phase = "request"
          /\ cc_running' = (cc_running \ {o}) \cup {[o EXCEPT !.phase = "waiting"]}
    /\ UNCHANGED <<cc_pc, cc_issued, cc_done, cc_next>>
    /\ UNCHANGED clientFrame

\* The future completes: block_on returns the value, or expect panics on
\* the Err.
Complete(t, ok) ==
    /\ \E o \in OpOf(t) :
          /\ o.phase = "waiting"
          /\ cc_running' = cc_running \ {o}
          /\ cc_done' = Append(cc_done, [id |-> o.id, caller |-> t])
    /\ cc_pc' = [cc_pc EXCEPT ![t] = IF ok THEN "idle" ELSE "panicked"]
    /\ UNCHANGED <<cc_issued, cc_next>>
    /\ UNCHANGED clientFrame

NextClient ==
    \/ \E t \in Callers, kind \in ClientOps : Call(t, kind)
    \/ \E t \in Callers : Progress(t)
    \/ \E t \in Callers, ok \in BOOLEAN : Complete(t, ok)

SpecClient == Init /\ [][NextClient]_vars

\* ===================================================== repository setup

\* (mutant) the cell is only read before the body: if
\* REPO_CREATED.get().is_none() { ... }
SetupRepository_ReadsOnly(t, variant) ==
    /\ rp_pc[t] = "idle"
    /\ rp_calls < MaxSetupCalls
    /\ rp_calls' = rp_calls + 1
    /\ rp_variant' = [rp_variant EXCEPT ![t] = variant]
    /\ IF REPO_CREATED = "unset"
       THEN /\ rp_pc' = [rp_pc EXCEPT ![t] = "apply_crd"]
            /\ rp_result' = [rp_result EXCEPT ![t] = "none"]
       ELSE /\ rp_result' = [rp_result EXCEPT ![t] = "Ok"]
            /\ UNCHANGED rp_pc
    /\ UNCHANGED <<REPO_CREATED, rp_crd_runs, rp_apply_runs>>
    /\ UNCHANGED repoFrame

\* setup_repository(client) / setup_repository_async(client):
\* if REPO_CREATED.set(true).is_ok() { ... }. OnceCell::set stores the value
\* and returns Ok for exactly one caller, and Err(value) once the cell is
\* set; then the body is skipped.
\* setup_repository with a retry: the body runs again for a caller that
\* comes after a failed setup.
SetupRepository_RetriesAfterFailure(t, variant) ==
    /\ rp_pc[t] = "idle"
    /\ rp_calls < MaxSetupCalls
    /\ rp_calls' = rp_calls + 1
    /\ rp_variant' = [rp_variant EXCEPT ![t] = variant]
    /\ IF REPO_CREATED = "unset" \/ \E u \in Callers : rp_result[u] \in {"panic", "Err"}
       THEN /\ REPO_CREATED' = "true"
            /\ rp_pc' = [rp_pc EXCEPT ![t] = "apply_crd"]
            /\ rp_result' = [rp_result EXCEPT ![t] = "none"]
       ELSE /\ rp_result' = [rp_result EXCEPT ![t] = "Ok"]
            /\ UNCHANGED <<REPO_CREATED, rp_pc>>
    /\ UNCHANGED <<rp_crd_runs, rp_apply_runs>>
    /\ UNCHANGED repoFrame

SetupRepository(t, variant) ==
    /\ rp_pc[t] = "idle"
    /\ rp_calls < MaxSetupCalls
    /\ rp_calls' = rp_calls + 1
    /\ rp_variant' = [rp_variant EXCEPT ![t] = variant]
    /\ IF REPO_CREATED = "unset"
       THEN /\ REPO_CREATED' = "true"
            /\ rp_pc' = [rp_pc EXCEPT ![t] = "apply_crd"]
            /\ rp_result' = [rp_result EXCEPT ![t] = "none"]
       ELSE /\ rp_result' = [rp_result EXCEPT ![t] = "Ok"]
            /\ UNCHANGED <<REPO_CREATED, rp_pc>>
    /\ UNCHANGED <<rp_crd_runs, rp_apply_runs>>
    /\ UNCHANGED repoFrame

\* The callee fails: the sync function panics in TestKubeClient (expect),
\* the async function returns the Err through `?`.
RepoFails(t) ==
    /\ rp_pc' = [rp_pc EXCEPT ![t] = IF rp_variant[t] = "sync" THEN "panicked" ELSE "idle"]
    /\ rp_result' = [rp_result EXCEPT ![t] = IF rp_variant[t] = "sync" THEN "panic" ELSE "Err"]

\* client.apply_crd(&Repository::crd())
RepoApplyCrd(t, ok) ==
    /\ rp_pc[t] = "apply_crd"
    /\ rp_crd_runs' = rp_crd_runs + 1
    /\ IF ok
       THEN /\ rp_pc' = [rp_pc EXCEPT ![t] = "apply"]
            /\ UNCHANGED rp_result
       ELSE RepoFails(t)
    /\ UNCHANGED <<REPO_CREATED, rp_variant, rp_calls, rp_apply_runs>>
    /\ UNCHANGED repoFrame

\* client.apply::<Repository>(REPO_SPEC); the function returns.
RepoApply(t, ok) ==
    /\ rp_pc[t] = "apply"
    /\ rp_apply_runs' = rp_apply_runs + 1
    /\ IF ok
       THEN /\ rp_pc' = [rp_pc EXCEPT ![t] = "idle"]
            /\ rp_result' = [rp_result EXCEPT ![t] = "Ok"]
       ELSE RepoFails(t)
    /\ UNCHANGED <<REPO_CREATED, rp_variant, rp_calls, rp_crd_runs>>
    /\ UNCHANGED repoFrame

NextRepo ==
    \/ \E t \in Callers, variant \in {"sync", "async"} : SetupRepository(t, variant)
    \/ \E t \in Callers, ok \in BOOLEAN : RepoApplyCrd(t, ok)
    \/ \E t \in Callers, ok \in BOOLEAN : RepoApply(t, ok)

SpecRepo == Init /\ [][NextRepo]_vars

\* ================================================ TestClusterOptions::new

\* const MAX_INSTANCE_NAME_LEN: usize = 63
MAX_INSTANCE_NAME_LEN == 63

\* Values of Uuid::new_v4().as_fields().0 with one to ten decimal digits.
UidValues == {0, 7, 42, 999, 65535, 1000000, 2147483647}

\* The bytes of a string: an ASCII character is one byte; a character of
\* two bytes is a lead byte and a continuation byte.
AsciiByte(i) == 200 + i
LeadByte(i) == 3000 + i
ContByte(i) == 4000 + i
Dash == 45
Digit(d) == 48 + d

\* An instance name of n bytes, all ASCII when w = 0, otherwise with a
\* character of two bytes at the bytes w and w + 1.
InstanceName(n, w) ==
    [i \in 1..n |-> IF w > 0 /\ i = w THEN LeadByte(i)
                    ELSE IF w > 0 /\ i = w + 1 THEN ContByte(i)
                    ELSE AsciiByte(i)]

\* u32::to_string: the decimal digits, most significant first.
RECURSIVE U32ToString(_)
U32ToString(u) == IF u < 10 THEN <<Digit(u)>>
               ELSE Append(U32ToString(u \div 10), Digit(u % 10))

\* str::is_char_boundary(k): the start, the end, or a byte that begins a
\* character.
IsCharBoundary(str, k) ==
    \/ k = 0
    \/ k = Len(str)
    \/ k < Len(str) /\ str[k + 1] < ContByte(0)

\* (mutant) the byte of the "-" is not reserved.
MaxLen_NoDash(uid) == MAX_INSTANCE_NAME_LEN - Len(uid)

\* let max_len = MAX_INSTANCE_NAME_LEN - uid.len() - 1
MaxLen(uid) == MAX_INSTANCE_NAME_LEN - Len(uid) - 1

\* adapted_name: &instance_name[0..max_len - 1] when instance_name.len() >
\* max_len, which panics when max_len - 1 is inside a character; formatted
\* as "{}-{}" with the uid.
GeneratedName(instance_name, uid) ==
    IF Len(instance_name) > MaxLen(uid)
    THEN IF IsCharBoundary(instance_name, MaxLen(uid) - 1)
         THEN [panic |-> FALSE,
               name |-> SubSeq(instance_name, 1, MaxLen(uid) - 1) \o <<Dash>> \o uid]
         ELSE [panic |-> TRUE, name |-> <<>>]
    ELSE [panic |-> FALSE, name |-> instance_name \o <<Dash>> \o uid]

\* TestClusterOptions::new(app_name, instance_name) constructs the options
\* of a test.
New(n, w, u) ==
    /\ nm_out = [panic |-> FALSE, name |-> <<>>]
    /\ w = 0 \/ w < n
    /\ nm_in' = InstanceName(n, w)
    /\ nm_uid' = u
    /\ nm_out' = GeneratedName(InstanceName(n, w), U32ToString(u))
    /\ UNCHANGED nameFrame

\* Where the instance name has its character of two bytes (0: nowhere):
\* around the places where new cuts.
WidePositions == {0} \cup ((MAX_INSTANCE_NAME_LEN - 13)..(MaxNameLen - 1))

NextName ==
    \E n \in 0..MaxNameLen, w \in WidePositions, u \in UidValues : New(n, w, u)

SpecName == Init /\ [][NextName]_vars

\* =================================== check_pod_creation_timestamp alone

\* Option<Time>: None, or Some with a time in seconds.
NoTime == [some |-> FALSE, t |-> 0]
SomeTime(t) == [some |-> TRUE, t |-> t]
OptionTimes == {NoTime} \cup {SomeTime(t) : t \in 0..MaxTime}

\* The lists of pods list::<Pod>(None) can return, each pod given by its
\* metadata.creation_timestamp.
PodLists == UNION {[1..n -> OptionTimes] : n \in 0..MaxPods}

\* a <= b on Option<Time>.
OptionLt_OrEqual(a, b) ==
    IF a.some /\ b.some THEN a.t <= b.t ELSE ~a.some

\* a < b on Option<Time>, the derived ordering: None is less than every
\* Some, and two Some compare by their times.
OptionLt(a, b) ==
    IF a.some /\ b.some THEN a.t < b.t ELSE ~a.some /\ b.some

\* for pod in &list { if pod_creation_timestamp < creation_timestamp
\* { return Err(..) } } Ok(()): the pods are looked at in the order of the
\* list from pod i on, and the first older pod ends the call.
RECURSIVE CheckFrom(_, _, _)
CheckFrom(list, i, creation_timestamp) ==
    IF i > Len(list) THEN [kind |-> "Ok", pod |-> 0]
    ELSE IF OptionLt(list[i], creation_timestamp)
         THEN [kind |-> "Err_older_timestamp", pod |-> i]
         ELSE CheckFrom(list, i + 1, creation_timestamp)

\* check_pod_creation_timestamp(creation_timestamp) on a cluster whose
\* pods are `list`; list::<Pod>(None) panics when the API call fails.
CheckTimestamps(list, creation_timestamp, list_ok) ==
    /\ ck_pods' = list
    /\ ck_cutoff' = creation_timestamp
    /\ ck_result' = IF list_ok THEN CheckFrom(list, 1, creation_timestamp)
                   ELSE [kind |-> "panic", pod |-> 0]
    /\ ck_labels' = <<>>
    /\ ck_version' = 0
    /\ ck_vresult' = [kind |-> "none", pod |-> 0]
    /\ UNCHANGED checkFrame

\* The value of the version label of a pod: 0 for a pod without the label
\* (or without labels), else the version it names.
VersionLabels == 0..MaxVersion
Versions == 1..MaxVersion

\* The lists of pods list::<Pod>(None) can return, each pod given by its
\* version label.
LabelLists == UNION {[1..n -> VersionLabels] : n \in 0..MaxPods}

\* check_pod_version with the `else` branch lost: a pod without the label
\* is passed over.
RECURSIVE CheckVersionFrom_SkipsUnlabelled(_, _, _)
CheckVersionFrom_SkipsUnlabelled(list, i, version) ==
    IF i > Len(list) THEN [kind |-> "Ok", pod |-> 0]
    ELSE IF list[i] # 0 /\ version # list[i]
         THEN [kind |-> "Err_version", pod |-> i]
         ELSE CheckVersionFrom_SkipsUnlabelled(list, i + 1, version)

\* for pod in &list { if let Some(pod_version) = labels.get(version label)
\* { if version != pod_version { return Err } } else { return Err } }
\* Ok(()): the pods in the order of the list from pod i on.
RECURSIVE CheckVersionFrom(_, _, _)
CheckVersionFrom(list, i, version) ==
    IF i > Len(list) THEN [kind |-> "Ok", pod |-> 0]
    ELSE IF list[i] # 0
         THEN IF version # list[i]
              THEN [kind |-> "Err_version", pod |-> i]
              ELSE CheckVersionFrom(list, i + 1, version)
         ELSE [kind |-> "Err_no_label", pod |-> i]

\* check_pod_version(version) on a cluster whose pods are `list`;
\* list::<Pod>(None) panics when the API call fails.
CheckVersions(list, version, list_ok) ==
    /\ ck_labels' = list
    /\ ck_version' = version
    /\ ck_vresult' = IF list_ok THEN CheckVersionFrom(list, 1, version)
                    ELSE [kind |-> "panic", pod |-> 0]
    /\ ck_pods' = <<>>
    /\ ck_cutoff' = NoTime
    /\ ck_result' = [kind |-> "none", pod |-> 0]
    /\ UNCHANGED checkFrame

NextCheck ==
    \/ \E list \in PodLists, c \in OptionTimes, list_ok \in BOOLEAN :
          CheckTimestamps(list, c, list_ok)
    \/ \E list \in LabelLists, v \in Versions, list_ok \in BOOLEAN :
          CheckVersions(list, v, list_ok)

SpecCheck == Init /\ [][NextCheck]_vars

\* ================================================ TestCluster::list alone

\* Strings are sequences of pieces: words, and the two characters that
\* carry meaning in a label selector, "," and "=".
LabelApp == <<"app">>                \* self.labels.app
LabelInstance == <<"instance">>      \* self.labels.instance
OptAppName == <<"A">>                \* self.options.app_name
OptInstanceName == <<"I">>           \* self.options.instance_name

\* The keys and values a caller passes in additional_labels, in the order
\* BTreeMap keeps its keys; the last key and the last value are strings
\* that are no label names.
CallerKeys == <<LabelApp, LabelInstance, <<"x">>, <<"x", "=", "o", ",", "y">>>>
CallerValues == {<<"o">>, <<"p">>, <<"o", ",", "instance", "=", "o">>}

CallerMaps == UNION {[D -> CallerValues] : D \in SUBSET Range(CallerKeys)}
AdditionalLabels ==
    {[some |-> FALSE, map |-> <<>>]} \cup {[some |-> TRUE, map |-> c] : c \in CallerMaps}

\* A string without "," and "=": what a label key or value can be.
IsPlain(str) == Len(str) = 1 /\ str[1] \notin {",", "="}

\* The resources of the kind on the server, each given by its labels.
ServerResources ==
    {[k \in D |-> IF k = LabelApp THEN <<a>>
                  ELSE IF k = LabelInstance THEN <<i>> ELSE <<v>>] :
        D \in {{LabelApp, LabelInstance}, {LabelApp, LabelInstance, <<"x">>},
               {LabelApp, LabelInstance, <<"x">>, <<"y">>}, {LabelApp, <<"x">>}},
        a \in {"A", "o"}, i \in {"I", "o"}, v \in {"o", "p"}}

\* The merge with the identity labels lost to the caller's entries.
MergedLabels_CallerWins(additional) ==
    [k \in DOMAIN additional.map \cup {LabelApp, LabelInstance} |->
        IF k \in DOMAIN additional.map THEN additional.map[k]
        ELSE IF k = LabelApp THEN OptAppName ELSE OptInstanceName]

\* additional_labels.unwrap_or_default() and the two inserts, each of
\* which replaces an entry of the same key.
MergedLabels(additional) ==
    [k \in DOMAIN additional.map \cup {LabelApp, LabelInstance} |->
        IF k = LabelApp THEN OptAppName
        ELSE IF k = LabelInstance THEN OptInstanceName
        ELSE additional.map[k]]

\* labels.iter(): the keys in the order of the BTreeMap.
KeysInOrder(labels) == SelectSeq(CallerKeys, LAMBDA k : k \in DOMAIN labels)

\* transformed_labels.join(","): format!("{}={}", key, value) of every
\* entry from entry i on, with "," between them.
RECURSIVE JoinFrom(_, _, _)
JoinFrom(labels, keys, i) ==
    IF i > Len(keys) THEN <<>>
    ELSE keys[i] \o <<"=">> \o labels[keys[i]]
         \o (IF i < Len(keys) THEN <<",">> ELSE <<>>)
         \o JoinFrom(labels, keys, i + 1)

Selector(labels) == JoinFrom(labels, KeysInOrder(labels), 1)

\* The server splits the selector at each "," into requirements.
RECURSIVE SplitOn(_, _)
SplitOn(str, sep) ==
    IF \A i \in 1..Len(str) : str[i] # sep THEN <<str>>
    ELSE LET i == CHOOSE j \in 1..Len(str) :
                     str[j] = sep /\ \A h \in 1..(j - 1) : str[h] # sep
         IN <<SubSeq(str, 1, i - 1)>> \o SplitOn(SubSeq(str, i + 1, Len(str)), sep)

\* One requirement: key=value, or a key alone (the label exists); other
\* shapes are rejected by the server.
Requirement(part) ==
    LET kv == SplitOn(part, "=")
    IN [ok |-> Len(kv) \in {1, 2} /\ kv[1] # <<>>,
        key |-> kv[1],
        eq |-> Len(kv) = 2,
        value |-> IF Len(kv) >= 2 THEN kv[2] ELSE <<>>]

Requirements(selector) ==
    LET parts == SplitOn(selector, ",")
    IN [j \in 1..Len(parts) |-> Requirement(parts[j])]

Fulfils(resource, req) ==
    /\ req.key \in DOMAIN resource
    /\ req.eq => resource[req.key] = req.value

\* A selection that takes a resource as soon as one requirement holds.
Selects_Any(resource, reqs) ==
    \E j \in 1..Len(reqs) : Fulfils(resource, reqs[j])

\* A label selector selects the resources that fulfil every requirement.
Selects(resource, reqs) ==
    \A j \in 1..Len(reqs) : Fulfils(resource, reqs[j])

\* client.list_labeled(selector).items: the resources the selector
\* selects; the panic of expect when the request fails or the server
\* rejects the selector.
ListLabeled(selector, api_ok) ==
    LET reqs == Requirements(selector)
    IN IF api_ok /\ \A j \in 1..Len(reqs) : reqs[j].ok
       THEN [kind |-> "Ok", items |-> {r \in ServerResources : Selects(r, reqs)}]
       ELSE [kind |-> "panic", items |-> {}]

\* TestCluster::list(additional_labels), one call.
ListWith(additional_labels, api_ok) ==
    /\ ls_result.kind = "none"
    /\ ls_additional' = additional_labels
    /\ ls_selector' = Selector(MergedLabels(additional_labels))
    /\ ls_result' = ListLabeled(Selector(MergedLabels(additional_labels)), api_ok)
    /\ UNCHANGED listFrame

NextList ==
    \E additional_labels \in AdditionalLabels, api_ok \in BOOLEAN :
        ListWith(additional_labels, api_ok)

SpecList == Init /\ [][NextList]_vars

\* ============================== with_unique_name, then apply and find

\* A YAML scalar as it stands in the text: plain or quoted, with its
\* characters; "absent" for a key the text does not have. A specification
\* is its metadata/name and one more field whose type is String (a label,
\* a version).
Scalar(style, text) == [style |-> style, text |-> text]
Absent == Scalar("absent", <<>>)

\* Plain scalars that YAML reads as numbers, and the way a number is
\* written again.
NumberTexts == {<<"7">>, <<"1.10">>, <<"010">>, <<"1.1">>, <<"10">>}
CanonicalNumber(text) ==
    IF text = <<"1.10">> THEN <<"1.1">>
    ELSE IF text = <<"010">> THEN <<"10">> ELSE text

NameScalars ==
    {Absent, Scalar("plain", <<"web">>), Scalar("plain", <<"7">>),
     Scalar("quoted", <<"7">>)}
FieldScalars ==
    {Absent, Scalar("plain", <<"v">>), Scalar("plain", <<"1.10">>),
     Scalar("quoted", <<"1.10">>), Scalar("plain", <<"010">>),
     Scalar("plain", <<"7">>)}
Uuids == {"u1", "u2"}

\* from_yaml into serde_yaml::Value: a quoted scalar is a string, a plain
\* one is a number when it reads as one, and an absent key gives Null.
YamlValue(sc) ==
    IF sc.style = "absent" THEN [kind |-> "Null", text |-> <<>>]
    ELSE IF sc.style = "plain" /\ sc.text \in NumberTexts
         THEN [kind |-> "Number", text |-> CanonicalNumber(sc.text)]
         ELSE [kind |-> "String", text |-> sc.text]

\* serde_yaml::to_string of a Value: a number in its canonical form, a
\* string plain unless it would read as a number, Null left out.
ToYaml(v) ==
    IF v.kind = "Null" THEN Absent
    ELSE IF v.kind = "Number" THEN Scalar("plain", v.text)
    ELSE IF v.text \in NumberTexts THEN Scalar("quoted", v.text)
         ELSE Scalar("plain", v.text)

\* from_yaml::<K>: a String field of the resource takes the characters of
\* the scalar, plain or quoted.
StringField(sc) == sc.text

\* *name = format!("{}-{}", name.as_str().expect(..), Uuid::new_v4()).into();
\* serde_yaml::to_string(&spec)
Renamed(yaml, uuid) ==
    [name |-> ToYaml([kind |-> "String",
                      text |-> YamlValue(yaml.name).text \o <<"-", uuid>>]),
     field |-> ToYaml(YamlValue(yaml.field))]

\* with_unique_name(yaml): expect panics when metadata/name is no string.
WithUniqueName(yaml, uuid) ==
    /\ un_pc = "start"
    /\ un_yaml' = yaml
    /\ un_uuid' = uuid
    /\ IF YamlValue(yaml.name).kind = "String"
       THEN /\ un_out' = Renamed(yaml, uuid)
            /\ un_pc' = "named"
       ELSE /\ un_pc' = "panicked"
            /\ UNCHANGED un_out
    /\ UNCHANGED <<un_stored, un_found>>
    /\ UNCHANGED uniqueFrame

\* TestKubeClient::apply::<K>(&text): from_yaml::<K>, then the patch under
\* resource.name(); expect panics when the server refuses.
ApplyUnique(api_ok) ==
    /\ un_pc = "named"
    /\ IF api_ok
       THEN /\ un_stored' = [kind |-> "Some", name |-> StringField(un_out.name),
                             field |-> StringField(un_out.field)]
            /\ un_pc' = "applied"
       ELSE /\ un_pc' = "panicked"
            /\ UNCHANGED un_stored
    /\ UNCHANGED <<un_yaml, un_uuid, un_out, un_found>>
    /\ UNCHANGED uniqueFrame

\* TestKubeClient::find_namespaced::<K>(name): api.get(name).await.ok()
FindUnique(name, api_ok) ==
    /\ un_pc = "applied"
    /\ un_found' = IF api_ok /\ un_stored.kind = "Some" /\ un_stored.name = name
                  THEN un_stored
                  ELSE [kind |-> "None", name |-> <<>>, field |-> <<>>]
    /\ un_pc' = "found"
    /\ UNCHANGED <<un_yaml, un_uuid, un_out, un_stored>>
    /\ UNCHANGED uniqueFrame

NextUnique ==
    \/ \E n \in NameScalars, f \in FieldScalars, u \in Uuids :
          WithUniqueName([name |-> n, field |-> f], u)
    \/ \E api_ok \in BOOLEAN : ApplyUnique(api_ok)
    \/ \E api_ok \in BOOLEAN,
          name \in {StringField(un_out.name), StringField(un_yaml.name)} :
          FindUnique(name, api_ok)

SpecUnique == Init /\ [][NextUnique]_vars

\* ================================================================ claims

WaitReadyReturned ==
    /\ op \in {"wait_ready", "create_or_update"}
    /\ pc = "idle"
    /\ result \in {"Ok", "Err_ready_timeout"}

\* C1 (as stated): in the drop of a TestCluster whose cluster was set, the
\* field is never None while the delete or the termination wait is still
\* outstanding.
C1_ClearedOnlyAfterTermination ==
    (op = "drop" /\ taken # "None" /\ cluster = "None")
        => pc \notin {"drop_delete", "wt_check", "wt_sleep"}

\* C1 (amended): drop clears the field with take() before it issues the
\* delete: the field is None, and the taken resource held by drop, during
\* the whole delete and termination wait, and no delete is ever issued
\* while the field is still set.
C1_ClearedBeforeDelete ==
    /\ (op = "drop" /\ pc \in {"drop_delete", "wt_check", "wt_sleep"})
          => (cluster = "None" /\ taken # "None")
    /\ deleteCalls > 0 => cluster = "None"

\* C1 witness: drop waits for pods that are still there, the field cleared.
C1_Witness ==
    /\ op = "drop"
    /\ pc = "wt_sleep"
    /\ taken # "None"
    /\ cluster = "None"
    /\ polled # {}

\* C2: the cluster field is None at construction and changes only when an
\* apply succeeds (to the applied resource) or when drop takes it; a failed
\* apply and every other operation leave it as it was.
C2_ClusterWrittenOnlyByApply ==
    /\ cluster = "None"
    /\ [][cluster' # cluster =>
             \/ (pc = "apply" /\ pc' = "apply_sleep" /\ cluster' = arg)
             \/ (pc \in {"idle", "unwinding"} /\ op' = "drop" /\ cluster' = "None")]_vars

\* C2 witness: an apply of another resource failed and the field still
\* holds the resource applied before.
C2_Witness ==
    /\ op = "create_or_update"
    /\ pc = "idle"
    /\ result = "Err_yaml"
    /\ cluster # "None"
    /\ arg # cluster

\* C3: wait_ready returns Ok only when its last poll listed exactly the
\* expected number of pods and the Ready condition was seen true for each
\* of them.
C3_ReadyOnlyAfterVerifiedCount ==
    (WaitReadyReturned /\ result = "Ok") =>
        /\ listCalls >= 1
        /\ Cardinality(polled) = expected
        /\ created_pods = polled
        /\ \A p \in polled : p \in DOMAIN accepted /\ accepted[p] = "Ready"

\* C3 witness: wait_ready succeeded for as many pods as there can be.
C3_Witness ==
    /\ WaitReadyReturned
    /\ result = "Ok"
    /\ expected = MaxPods
    /\ Cardinality(DOMAIN accepted) = MaxPods

\* C4 (as stated): when the count matches and the readiness of a pod does
\* not arrive before its wait ends, wait_ready returns the timeout error to
\* its caller.
C4_ReadinessTimeoutIsReturned ==
    kerr = "verify_timeout" =>
        (~panicking /\ pc = "idle" /\ result = "Err_ready_timeout")

\* C5: while no poll of wait_ready counts the expected number of pods, the
\* loop sleeps two seconds after every poll, polls only before the deadline
\* and returns the timeout error, never Ok, once the whole seconds elapsed
\* reach the whole seconds of cluster_ready.
C5_CountNeverReached ==
    /\ (WaitReadyReturned /\ mismatches = listCalls) =>
          /\ result = "Err_ready_timeout"
          /\ elapsed \div TicksPerSec >= timeouts.cluster_ready \div TicksPerSec
    /\ pc = "wr_sleep" =>
          /\ Cardinality(polled) # expected
          /\ elapsed \div TicksPerSec < timeouts.cluster_ready \div TicksPerSec
          /\ elapsed >= (listCalls - 1) * ReadySleepSecs * TicksPerSec
    /\ (pc = "wr_check" /\ mismatches = listCalls) =>
          elapsed >= listCalls * ReadySleepSecs * TicksPerSec

\* C5 witness: three polls, none with the expected count, then the timeout
\* error.
C5_Witness ==
    /\ WaitReadyReturned
    /\ result = "Err_ready_timeout"
    /\ listCalls = 3
    /\ mismatches = 3

\* C6: a successful wait_ready has issued exactly one list call more than
\* the polls whose count differed, and that last poll counted the expected
\* number of pods.
C6_SuccessAfterFirstMatchingPoll ==
    (WaitReadyReturned /\ result = "Ok") =>
        /\ listCalls = mismatches + 1
        /\ Cardinality(polled) = expected

\* C6 witness: two polls with another count, the third with the expected
\* pods, all ready: Ok after exactly three list calls.
C6_Witness ==
    /\ WaitReadyReturned
    /\ result = "Ok"
    /\ mismatches = 2
    /\ listCalls = 3
    /\ expected = MaxPods

\* C7: wait_for_pods_terminated returns Ok only from a poll that found no
\* pod on the server, whatever the phase of the pods, and it returns at
\* that poll: it never sleeps after a poll that found none.
C7_TerminatedOnlyWhenEmpty ==
    /\ (op \in {"wait_for_pods_terminated", "drop"} /\ result = "Ok") =>
          (listCalls >= 1 /\ polled = {})
    /\ pc = "wt_sleep" => polled # {}

\* C7 witness: the first poll found pods, the second none: Ok.
C7_Witness ==
    /\ op = "wait_for_pods_terminated"
    /\ pc = "idle"
    /\ result = "Ok"
    /\ listCalls = 2

\* C8: a TemporaryResource that was constructed has no delete issued while
\* its scope lasts, and from its drop on exactly one, for the resource it
\* created, whether the scope ended normally, by a panic of the test body
\* or by a panic of update.
C8_ExactlyOneDelete ==
    /\ tpc \in (StartPcs \cup {"live", "unwinding", "panicked"}) => tr_deleted = <<>>
    /\ tpc \in (DropPcs \cup {"dropped", "aborted", "drop_panicked"}) =>
          /\ Len(tr_deleted) = 1
          /\ tr_deleted[1].name = ResName
          /\ k_arg = tr_deleted[1]

\* C8 witness: the resource was updated, the test body panicked, and the
\* drop that ran while unwinding has issued its one delete and finished.
C8_Witness ==
    /\ tpc = "dropped"
    /\ t_panicking
    /\ Len(tr_deleted) = 1
    /\ tr_deleted[1].status > 0

\* C9: create, delete and apply_crd issue their create / delete / patch call
\* only with the watch on the resource's name open, and once the call is
\* made the event it produced is on its way to the waiting loop (queued for
\* the stream, in the stream, or already read): it is not missed.
C9_WatchBeforeMutation ==
    /\ tpc \in {"create_post", "delete_call"} => k_watch = ResName
    /\ tpc = "crd_patch" => k_watch = CrdName
    /\ tpc \in {"create_loop", "delete_loop", "crd_get", "crd_loop"} =>
          \A e \in Range(k_mutation) :
              e \in Range(k_inflight) \cup Range(k_stream) \cup Range(k_consumed)

\* C9 witness: delete's call left the resource terminating and the event of
\* that call waits in the stream that the loop has not read yet.
C9_Witness ==
    /\ tpc = "delete_loop"
    /\ k_mutation # <<>>
    /\ k_consumed = <<>>
    /\ k_mutation[1] \in Range(k_stream)

\* C10: create returns Ok only with the resource of an Added event for the
\* resource's name that it read from the watch, and new holds that
\* resource; when the stream ends first, the result is the timeout error
\* with the name and the create timeout, never Ok.
C10_CreateConfirmedByAdded ==
    /\ (k_last = "create" /\ k_result.kind = "Ok") =>
          /\ Len(k_consumed) >= 1
          /\ k_consumed[Len(k_consumed)].type = "Added"
          /\ k_consumed[Len(k_consumed)].obj.name = ResName
          /\ k_result.value = k_consumed[Len(k_consumed)].obj
    /\ (k_last = "create" /\ tpc = "live") =>
          (k_result.kind = "Ok" /\ tr_resource = k_result.value)
    /\ (k_last = "create" /\ k_result.kind = "Err_timeout") =>
          /\ k_result.name = ResName
          /\ k_result.secs = CreateTimeoutSecs
          /\ \A e \in Range(k_consumed) : e.type # "Added"
    /\ (k_last = "create" /\ tpc \notin StartPcs
          /\ \A e \in Range(k_consumed) : e.type # "Added") =>
          k_result.kind \in {"Err_api", "Err_timeout"}

\* C10 witness: the stream of create ended before the Added event of the
\* created resource arrived: the timeout error.
C10_Witness ==
    /\ k_last = "create"
    /\ k_result = ErrTimeout(ResName, CreateTimeoutSecs)
    /\ srv.phase = "present"
    /\ tpc = "panicked"

\* C11: delete returns Ok only when its delete call reported the immediate
\* deletion or when it read, after the call, a Deleted event for the
\* resource's name from the watch; when the stream ends with neither, the
\* result is the timeout error with the name and the delete timeout.
C11_DeleteConfirmedByDeleted ==
    /\ (k_last = "delete" /\ k_result.kind = "Ok") =>
          \/ /\ k_consumed = <<>>
             /\ Len(k_mutation) = 1
             /\ k_mutation[1].type = "Deleted"
             /\ k_mutation[1].obj.name = k_arg.name
          \/ /\ Len(k_consumed) >= 1
             /\ k_consumed[Len(k_consumed)].type = "Deleted"
             /\ k_consumed[Len(k_consumed)].obj.name = k_arg.name
             /\ \A e \in Range(k_mutation) : e.type = "Modified"
    /\ (k_last = "delete" /\ tpc = "dropped") => k_result.kind = "Ok"
    /\ (k_last = "delete" /\ k_result.kind = "Err_timeout") =>
          /\ k_result.name = k_arg.name
          /\ k_result.secs = DeleteTimeoutSecs
          /\ \A e \in Range(k_consumed) \cup Range(k_mutation) : e.type # "Deleted"
    /\ (k_last = "delete" /\ tpc \notin DropPcs
          /\ \A e \in Range(k_consumed) \cup Range(k_mutation) : e.type # "Deleted") =>
          k_result.kind \in {"Err_api", "Err_timeout"}

\* C11 witness: the delete call left the resource terminating, and delete
\* returned after it read the Modified event and then the Deleted event.
C11_Witness ==
    /\ k_last = "delete"
    /\ k_result.kind = "Ok"
    /\ tpc = "dropped"
    /\ Len(k_consumed) >= 2
    /\ k_mutation # <<>>
    /\ k_mutation[1].type = "Modified"
    /\ srv.phase = "absent"

\* verify_status has handed a Result to its caller.
VerifyReturned == k_last = "verify_status" /\ tpc = "start"

\* The events a verify_status in progress has read or still has to get.
VerifyPending == k_consumed \o k_stream \o k_inflight

\* C12 as stated: verify_status returns Ok only with a resource that
\* fulfils the predicate, and whenever a change made the resource fulfil
\* the predicate at some moment of the call and every event of the watch
\* was read, the call does not end in the timeout error.
C12_NoSatisfyingMomentMissed ==
    /\ (VerifyReturned /\ k_result.kind = "Ok") => Pred(vs_pred, k_result.value)
    /\ (VerifyReturned /\ k_result.kind = "Err_timeout"
          /\ Len(k_consumed) >= Len(vs_events)
          /\ SubSeq(k_consumed, Len(k_consumed) - Len(vs_events) + 1,
                    Len(k_consumed)) = vs_events) => ~vs_sat

\* C12 amended: verify_status returns Ok only with a resource that fulfils
\* the predicate, either the one read by get_status after the watch was
\* opened or the one of a Modified event read from the watch; every event
\* the server produced since the watch was opened is read or still to be
\* read by the loop, in order; and the timeout error is returned only when
\* neither the status read nor any Modified event read fulfilled the
\* predicate.
C12_ModificationsExamined ==
    /\ (VerifyReturned /\ k_result.kind = "Ok") =>
          /\ Pred(vs_pred, k_result.value)
          /\ \/ k_consumed = <<>> /\ k_result.value = vs_read
             \/ /\ k_consumed # <<>>
                /\ k_consumed[Len(k_consumed)] = KEvent("Modified", k_result.value)
                /\ ~Pred(vs_pred, vs_read)
    /\ tpc \in {"verify_get", "verify_loop"} =>
          /\ Len(VerifyPending) >= Len(vs_events)
          /\ SubSeq(VerifyPending, Len(VerifyPending) - Len(vs_events) + 1,
                    Len(VerifyPending)) = vs_events
    /\ (VerifyReturned /\ k_result.kind = "Err_timeout") =>
          /\ ~Pred(vs_pred, vs_read)
          /\ \A e \in Range(k_consumed) :
                ~(e.type = "Modified" /\ Pred(vs_pred, e.obj))

\* C12 witness: the status read did not fulfil the predicate, the resource
\* was modified afterwards, and verify_status returned the resource of that
\* Modified event.
C12_Witness ==
    /\ VerifyReturned
    /\ k_result.kind = "Ok"
    /\ vs_read.name = ResName
    /\ ~Pred(vs_pred, vs_read)
    /\ vs_events # <<>>
    /\ k_consumed # <<>>
    /\ k_consumed[Len(k_consumed)] = vs_events[Len(vs_events)]

\* C13 as stated: with a predicate that is never true verify_status never
\* returns Ok, and whatever it returns is the timeout error with the name
\* and the timeout, returned after the configured timeout has elapsed.
C13_FailsOnlyAfterFullTimeout ==
    (VerifyReturned /\ vs_pred = "never" /\ k_result.kind # "none") =>
        /\ k_result.kind = "Err_timeout"
        /\ k_result.name = ResName
        /\ vs_clock >= vs_timeout

\* C13 amended: with a predicate that is never true verify_status never
\* returns Ok; it returns either the error of a failed API call (watch,
\* get_status, stream) at once, or the timeout error, which carries the
\* name and the whole seconds of the timeout and is returned only after
\* the watch has run for those whole seconds.
C13_TimeoutErrorOnlyAtStreamEnd ==
    (VerifyReturned /\ vs_pred = "never" /\ k_result.kind # "none") =>
        /\ k_result.kind \in {"Err_api", "Err_timeout"}
        /\ k_result.kind = "Err_timeout" =>
              /\ k_result.name = ResName
              /\ k_result.secs = AsSecs(vs_timeout)
              /\ vs_clock >= FromSecs(AsSecs(vs_timeout))
              /\ vs_read.name = ResName

\* C13 witness: the predicate was never true, the resource changed during
\* the call, the events were read, and the timeout error came when the
\* watch had run for the whole seconds of a timeout of one and a half.
C13_Witness ==
    /\ VerifyReturned
    /\ vs_pred = "never"
    /\ k_result.kind = "Err_timeout"
    /\ vs_timeout = FromSecs(1) + 1
    /\ k_consumed # <<>>
    /\ vs_events # <<>>

\* C14: apply_crd returns Ok only when the custom resource definition is
\* accepted, its condition NamesAccepted being True.
C14_SuccessOnlyWhenAccepted ==
    (k_last = "apply_crd" /\ k_result.kind = "Ok") =>
        (crd = "accepted" /\ IsReady(k_result.value))

\* C15: drop of a TestCluster never raises: whatever fails on the cleanup
\* path, the delete or the wait for the termination of the pods, drop ends
\* normally and no panic leaves it.
C15_DropNeverRaises ==
    op = "drop" => (pc \notin {"drop_panicked", "aborted"} /\ kerr # "delete")

\* The operations of caller t in a log, in the order of the log.
OfCaller(log, t) ==
    LET Mine(x) == x.caller = t IN SelectSeq(log, Mine)

IsPrefix(a, b) == Len(a) <= Len(b) /\ SubSeq(b, 1, Len(a)) = a

\* C16 as stated: the operations issued through one TestKubeClient never
\* overlap and complete in the order in which they were issued, whoever
\* the callers are.
C16_NoOverlap ==
    /\ Cardinality(cc_running) <= 1
    /\ IsPrefix(cc_done, cc_issued)

\* C16 amended: the operations one thread issues through a TestKubeClient
\* never overlap and complete in the order that thread issued them: the
\* thread is blocked exactly while its operation runs.
C16_OneAtATimePerCaller ==
    \A t \in Callers :
        /\ Cardinality(OpOf(t)) <= 1
        /\ cc_pc[t] = "blocked" <=> OpOf(t) # {}
        /\ IsPrefix(OfCaller(cc_done, t), OfCaller(cc_issued, t))
        /\ Len(OfCaller(cc_issued, t)) = Len(OfCaller(cc_done, t)) + Cardinality(OpOf(t))

\* C16 witness: a thread has issued and completed two operations one after
\* the other while the operation of another thread was running.
C16_Witness ==
    \E t \in Callers, u \in Callers :
        /\ t # u
        /\ Len(OfCaller(cc_done, t)) >= 2
        /\ OpOf(u) # {}
        /\ \E o \in OpOf(u) : o.id < OfCaller(cc_done, t)[1].id

\* C17: however many tests call setup_repository and
\* setup_repository_async, and however the calls interleave, apply_crd of
\* the Repository definition and the apply of the repository resource are
\* each executed at most once, the apply only after the apply_crd, and at
\* most one caller is inside the body.
C17_SetupBodyAtMostOnce ==
    /\ rp_crd_runs <= 1
    /\ rp_apply_runs <= rp_crd_runs
    /\ Cardinality({t \in Callers : rp_pc[t] \in {"apply_crd", "apply"}}) <= 1
    /\ (rp_crd_runs > 0 \/ \E t \in Callers : rp_pc[t] # "idle") => REPO_CREATED = "true"

\* C17 witness: both functions were called, by different threads, and the
\* calls of one returned while the other caller was still inside the body.
C17_Witness ==
    /\ rp_calls >= 3
    /\ rp_crd_runs = 1
    /\ \E t \in Callers, u \in Callers :
          /\ rp_variant[t] = "sync"
          /\ rp_variant[u] = "async"
          /\ rp_pc[t] = "apply"
          /\ rp_result[u] = "Ok"

\* C18: the instance name that TestClusterOptions::new generates is never
\* longer than 63, ends with "-" and the complete uid, and before that is
\* a prefix of the given instance name, the whole of it when it fits.
C18_NameWithinLimit ==
    (~nm_out.panic /\ nm_out.name # <<>>) =>
        LET uid == U32ToString(nm_uid)
            keep == Len(nm_out.name) - Len(uid) - 1
        IN /\ Len(nm_out.name) <= MAX_INSTANCE_NAME_LEN
           /\ keep >= 0
           /\ keep <= Len(nm_in)
           /\ SubSeq(nm_out.name, 1, keep) = SubSeq(nm_in, 1, keep)
           /\ nm_out.name[keep + 1] = Dash
           /\ SubSeq(nm_out.name, keep + 2, Len(nm_out.name)) = uid
           /\ Len(nm_in) + 1 + Len(uid) <= MAX_INSTANCE_NAME_LEN => keep = Len(nm_in)

\* C18 witness: an instance name longer than 63 bytes with a uid of ten
\* digits was cut and the generated name carries the whole uid.
C18_Witness ==
    /\ Len(nm_in) > MAX_INSTANCE_NAME_LEN
    /\ Len(U32ToString(nm_uid)) = 10
    /\ ~nm_out.panic
    /\ Len(nm_out.name) = MAX_INSTANCE_NAME_LEN - 1

\* C19 as stated: a call of find or find_namespaced returns Some with the
\* resource whenever the resource is present on the server, None when it
\* is not, and never an error or a panic.
C19_PresentIsFound ==
    [][(tpc = "start" /\ k_last' \in {"find", "find_namespaced"}
          /\ <<k_last, k_result>>' # <<k_last, k_result>>) =>
        /\ srv.phase # "absent" => k_result' = SomeOf(srv.obj)
        /\ srv.phase = "absent" => k_result' = NoneOf
        /\ tpc' = "start"
        /\ t_panicking' = t_panicking]_vars

\* C19 amended: a call of find or find_namespaced returns Some with the
\* resource as it is on the server, or None; None whenever the resource
\* does not exist, and also when the get request fails for another reason
\* while the resource exists; it never returns an error or panics.
C19_FindNeverFails ==
    [][(tpc = "start" /\ k_last' \in {"find", "find_namespaced"}
          /\ <<k_last, k_result>>' # <<k_last, k_result>>) =>
        /\ k_result' \in {SomeOf(srv.obj), NoneOf}
        /\ srv.phase = "absent" => k_result' = NoneOf
        /\ k_result'.kind = "Some" => srv.phase # "absent"
        /\ tpc' = "start"
        /\ t_panicking' = t_panicking]_vars

\* C19 witness: find_namespaced has returned the resource that is on the
\* server, a resource whose status a controller had already updated.
C19_Witness ==
    /\ k_last = "find_namespaced"
    /\ k_result.kind = "Some"
    /\ k_result.value = srv.obj
    /\ srv.obj.status > 0

C21_OkIffAllPodsHaveVersion ==
    ck_vresult.kind \notin {"none", "panic"} =>
        /\ ck_vresult.kind = "Ok" <=>
              \A i \in 1..Len(ck_labels) : ck_labels[i] = ck_version
        /\ ck_vresult.kind # "Ok" =>
              /\ ck_vresult.pod \in 1..Len(ck_labels)
              /\ \A i \in 1..(ck_vresult.pod - 1) : ck_labels[i] = ck_version
              /\ ck_vresult.kind = "Err_no_label" <=> ck_labels[ck_vresult.pod] = 0
              /\ ck_vresult.kind = "Err_version" <=>
                    ck_labels[ck_vresult.pod] \notin {0, ck_version}

\* C21 witness: the first pod has the expected version, the second has no
\* version label, and check_pod_version returned the error for the second.
C21_Witness ==
    /\ Len(ck_labels) = 2
    /\ ck_labels[1] = ck_version
    /\ ck_labels[2] = 0
    /\ ck_vresult = [kind |-> "Err_no_label", pod |-> 2]

\* The map list merges: the caller's labels with the two identity labels.
ListMerged ==
    [k \in DOMAIN ls_additional.map \cup {LabelApp, LabelInstance} |->
        IF k = LabelApp THEN OptAppName
        ELSE IF k = LabelInstance THEN OptInstanceName
        ELSE ls_additional.map[k]]

\* The resources whose labels are a superset of the merged map.
ListSuperset ==
    {r \in ServerResources :
        \A k \in DOMAIN ListMerged : k \in DOMAIN r /\ r[k] = ListMerged[k]}

ListRequirementsOn(key) ==
    {j \in 1..Len(Requirements(ls_selector)) :
        Requirements(ls_selector)[j].key = key}

ListIdentityOnce ==
    /\ Cardinality(ListRequirementsOn(LabelApp)) = 1
    /\ Cardinality(ListRequirementsOn(LabelInstance)) = 1
    /\ \A j \in ListRequirementsOn(LabelApp) :
          Requirements(ls_selector)[j] =
              [ok |-> TRUE, key |-> LabelApp, eq |-> TRUE, value |-> OptAppName]
    /\ \A j \in ListRequirementsOn(LabelInstance) :
          Requirements(ls_selector)[j] =
              [ok |-> TRUE, key |-> LabelInstance, eq |-> TRUE,
               value |-> OptInstanceName]

C23_TimeoutErrorNamesCount ==
    result \in {"Err_ready_timeout", "Err_terminated_timeout"} =>
        /\ "secs" \in DOMAIN ErrorMessage(result)
        /\ "count" \in DOMAIN ErrorMessage(result)
        /\ ErrorMessage(result).count = Cardinality(created_pods)

\* C24: a wait is a hard deadline: wait_ready and wait_for_pods_terminated
\* are never still waiting after their configured timeout has passed (the
\* verification of the single pods included), and they end with Ok or the
\* timeout error, never with a panic.
C24_HardDeadline ==
    /\ InWaitReady => elapsed <= timeouts.cluster_ready
    /\ InWaitTerminated => elapsed <= timeouts.pods_terminated
    /\ op = "wait_ready" => pc \in {"idle", "wr_check", "wr_sleep", "wr_verify",
                                     "vs_get", "vs_loop"}
    /\ (op = "wait_ready" /\ pc = "idle") =>
          result \in {"Ok", "Err_ready_timeout"}

\* C25: with_unique_name changes only metadata/name, to base-suffix, and
\* every other field of the text it returns is the field of the original;
\* the resource applied from that text and found under the new name has
\* that name and the other fields of the original specification.
C25_OnlyNameChanges ==
    /\ un_pc \in {"named", "applied", "found"} =>
          /\ StringField(un_out.name) =
                StringField(un_yaml.name) \o <<"-", un_uuid>>
          /\ StringField(un_out.field) = StringField(un_yaml.field)
    /\ (un_pc = "found" /\ un_found.kind = "Some") =>
          /\ un_found.name = StringField(un_yaml.name) \o <<"-", un_uuid>>
          /\ un_found.field = StringField(un_yaml.field)

\* C26: create_or_update begins with apply; its wait_ready begins only
\* after the apply succeeded and stored the resource, never before and
\* never after a failed apply; when the wait fails, the error is returned
\* with the cluster field still set to the applied resource (the field is
\* also set when the wait ends in a panic), and a drop that finds the
\* field set goes on to delete that resource.
C26_ApplyThenWaitReady ==
    /\ [][(op' = "create_or_update" /\ op # "create_or_update") =>
             pc' = "apply"]_vars
    /\ [][(op' = "create_or_update" /\ pc' = "wr_check" /\ ~InWaitReady) =>
             (pc = "apply_sleep" /\ cluster = arg /\ cluster # "None"
                /\ listCalls' = 0 /\ elapsed' = 0)]_vars
    /\ [](op = "create_or_update" /\ pc \in {"apply", "apply_sleep"} =>
             listCalls = 0)
    /\ [](op = "create_or_update" /\ pc \in {"idle", "unwinding"}
             /\ (result = "Err_yaml" \/ kerr = "apply") => listCalls = 0)
    /\ [](op = "create_or_update" /\ pc = "idle"
             /\ result = "Err_ready_timeout" =>
                cluster = arg /\ cluster # "None")
    /\ [](op = "create_or_update" /\ pc = "unwinding" /\ kerr # "apply" =>
                cluster = arg /\ cluster # "None")
    /\ [][(op' = "drop" /\ op # "drop" /\ cluster # "None") =>
             (pc' = "drop_delete" /\ taken' = cluster)]_vars
    /\ [][(pc = "drop_delete" /\ pc' # "drop_delete") =>
             deleteCalls' = deleteCalls + 1]_vars

\* C26 witness: create_or_update returned the timeout error of its
\* wait_ready after polls that missed the count, and the cluster field
\* holds the resource it applied.
C26_Witness ==
    /\ op = "create_or_update"
    /\ pc = "idle"
    /\ result = "Err_ready_timeout"
    /\ listCalls >= 2
    /\ cluster = arg
    /\ cluster # "None"

\* C27: a drop issues its delete before the first pod list of the
\* termination wait, at most one delete per TestCluster and that for the
\* resource the cluster field held (the last one applied), and neither a
\* delete nor a list when the field was None.
C27_OneDeleteBeforeThePolls ==
    /\ [](deleteCalls <= 1)
    /\ [](op = "drop" /\ listCalls >= 1 => deleteCalls = 1 /\ taken # "None")
    /\ [](op = "drop" /\ taken = "None" =>
             pc = "dropped" /\ deleteCalls = 0 /\ listCalls = 0)
    /\ [](op # "drop" => deleteCalls = 0)
    /\ [][deleteCalls' # deleteCalls =>
             /\ op = "drop" /\ pc = "drop_delete"
             /\ taken # "None" /\ listCalls = 0
             /\ deleteCalls' = 1]_vars
    /\ [][(op' = "drop" /\ op # "drop") => taken' = cluster]_vars

\* C27 witness: the drop of a TestCluster that held an applied resource
\* deleted once, that resource, and its termination wait polled twice
\* before the pods were gone.
C27_Witness ==
    /\ op = "drop"
    /\ pc = "dropped"
    /\ taken = "c2"
    /\ deleteCalls = 1
    /\ listCalls >= 2
    /\ result = "Ok"

C29_LaterCallsNeitherWaitNorRetry ==
    /\ [][REPO_CREATED = "true" =>
             /\ REPO_CREATED' = "true"
             /\ \A t \in Callers :
                   rp_pc'[t] = "apply_crd" => rp_pc[t] = "apply_crd"]_vars
    /\ [][(REPO_CREATED = "true" /\ rp_calls' = rp_calls + 1) =>
             /\ rp_pc' = rp_pc
             /\ rp_crd_runs' = rp_crd_runs /\ rp_apply_runs' = rp_apply_runs
             /\ \E t \in Callers :
                   /\ rp_pc[t] = "idle"
                   /\ rp_result' = [rp_result EXCEPT ![t] = "Ok"]]_vars
    /\ []((\E t \in Callers : rp_result[t] \in {"panic", "Err"}) =>
             REPO_CREATED = "true" /\ rp_crd_runs = 1 /\ rp_apply_runs <= 1)

\* C29 witness: the first call failed in apply_crd, so the repository does
\* not exist, and a later call of the other thread returned Ok.
C29_Witness ==
    /\ rp_crd_runs = 1
    /\ rp_apply_runs = 0
    /\ \E t \in Callers, u \in Callers :
          /\ rp_result[t] = "panic"
          /\ rp_result[u] = "Ok"

====
